---- MODULE Spec2Model ----
(***************************************************************************)
(* The artifact backends of pkg/backend: the direct object-store transport *)
(* (S3Backend) and the signed-URL transport (HubBackend), moving files     *)
(* between a local filesystem and a remote object store.                   *)
(*                                                                         *)
(* A string (a local path, a remote key) is a sequence of one-character    *)
(* strings; a file's content is a sequence of bytes.                       *)
(***************************************************************************)
EXTENDS Integers, Sequences, FiniteSets, TLC

VARIABLES
    transport,  \* the backend NewBackend got: "s3" or "hub"
    cfgPrefix,  \* S3Backend.cfg.Prefix (the empty string for none)
    store,      \* the bucket: a function from the keys it holds to their content
    fs,         \* the local filesystem: clean path -> [dir |-> TRUE] or a file
    emptyPages, \* the empty pages a listing of the store returns before its keys
    faultPlan,  \* the request the store or the broker fails in a call, if any
    last,       \* the record of the call that returned last
    prev,       \* a summary of the call before it
    nops,       \* calls made so far
    clients,    \* two clients pushing a file each: where each is in pushFile
    envBackend,     \* the value of the ARTIFACT_BACKEND environment variable
    configBackend,  \* the value of the "backend" configuration key
    newHubBackend,  \* the registered hub constructor, or "nil"
    newS3Backend,   \* the registered S3 constructor, or "nil"
    factory,        \* which of the two definitions of NewBackend is got
    got,            \* what the last call of the factory returned
    s3Env,      \* the ARTIFACT_S3_* environment variables ("" for unset)
    s3File,     \* the keys of the configuration file's s3 section
    loaded      \* what the last call of LoadConfig returned

backendVars ==
    <<transport, cfgPrefix, emptyPages, faultPlan, store, fs, last, prev, nops, clients>>
factoryVars == <<envBackend, configBackend, newHubBackend, newS3Backend, factory, got>>
configVars == <<s3Env, s3File, loaded>>
vars == <<backendVars, factoryVars, configVars>>

\* The body applied to the value of an expression, computed once.
With(value, Body(_)) == CHOOSE r \in {Body(v) : v \in {value}} : TRUE

(***************************************************************************)
(* Strings                                                                 *)
(***************************************************************************)

\* The characters of the model's strings in byte order ('.' 46, '/' 47, letters).
Alphabet == <<".", "/", "a", "b", "d", "f", "o", "p", "r", "s", "x">>

Ord(c) == CHOOSE i \in 1..Len(Alphabet) : Alphabet[i] = c

\* Go's string comparison: bytewise, a proper prefix first.
RECURSIVE StrLess(_, _)
StrLess(s, t) ==
    IF t = <<>> THEN FALSE
    ELSE IF s = <<>> THEN TRUE
    ELSE IF Head(s) = Head(t) THEN StrLess(Tail(s), Tail(t))
    ELSE Ord(Head(s)) < Ord(Head(t))

\* strings.HasPrefix
HasPrefix(s, p) == Len(p) <= Len(s) /\ SubSeq(s, 1, Len(p)) = p

\* strings.TrimPrefix
TrimPrefix(s, p) == IF HasPrefix(s, p) THEN SubSeq(s, Len(p) + 1, Len(s)) ELSE s

\* The separator of the operating system's paths (os.PathSeparator on Unix).
Separator == "/"

\* filepath.ToSlash: every Separator becomes a slash.
ToSlash(s) == [i \in 1..Len(s) |-> IF s[i] = Separator THEN "/" ELSE s[i]]

\* The elements of s between slashes (empty ones included).
RECURSIVE Split(_)
Split(s) ==
    IF \A i \in 1..Len(s) : s[i] # "/" THEN <<s>>
    ELSE With(CHOOSE j \in 1..Len(s) : s[j] = "/" /\ \A k \in 1..(j - 1) : s[k] # "/",
              LAMBDA i : With(SubSeq(s, i + 1, Len(s)),
                              LAMBDA rest : <<SubSeq(s, 1, i - 1)>> \o Split(rest)))

RECURSIVE JoinSegs(_)
JoinSegs(segs) ==
    IF segs = <<>> THEN <<>>
    ELSE IF Len(segs) = 1 THEN segs[1]
    ELSE segs[1] \o <<"/">> \o JoinSegs(Tail(segs))

\* The element stack of path.Clean: "." and empty elements dropped, ".." removing
\* the element before it (or, in a rooted path at the root, dropped).
RECURSIVE CleanSegs(_, _, _)
CleanSegs(segs, stack, rooted) ==
    IF segs = <<>> THEN stack
    ELSE LET e == Head(segs) IN
         IF e = <<>> \/ e = <<".">> THEN CleanSegs(Tail(segs), stack, rooted)
         ELSE IF e = <<".", ".">>
              THEN IF stack # <<>> /\ stack[Len(stack)] # <<".", ".">>
                   THEN CleanSegs(Tail(segs), SubSeq(stack, 1, Len(stack) - 1), rooted)
                   ELSE IF rooted THEN CleanSegs(Tail(segs), stack, rooted)
                   ELSE CleanSegs(Tail(segs), Append(stack, e), rooted)
         ELSE CleanSegs(Tail(segs), Append(stack, e), rooted)

\* path.Clean (and filepath.Clean on Unix)
Clean(s) ==
    LET rooted == s # <<>> /\ s[1] = "/"
        body   == JoinSegs(CleanSegs(Split(s), <<>>, rooted))
        out    == IF rooted THEN <<"/">> \o body ELSE body
    IN  IF out = <<>> THEN <<".">> ELSE out

\* path.Join (and filepath.Join on Unix) of two elements
Join(a, b) ==
    IF a = <<>> /\ b = <<>> THEN <<>>
    ELSE IF a = <<>> THEN Clean(b)
    ELSE IF b = <<>> THEN Clean(a)
    ELSE Clean(a \o <<"/">> \o b)

\* filepath.Dir: the path up to its last slash, cleaned.
Dir(s) ==
    LET slashes == {i \in 1..Len(s) : s[i] = "/"}
    IN  IF slashes = {} THEN <<".">>
        ELSE Clean(SubSeq(s, 1, CHOOSE i \in slashes : \A j \in slashes : j <= i))

\* filepath.Rel(base, targ) for a target at or beneath the base.
Rel(base, targ) ==
    LET b == Clean(base)
        t == Clean(targ)
    IN  IF t = b THEN <<".">>
        ELSE IF b = <<".">> THEN t
        ELSE SubSeq(t, Len(b) + 2, Len(t))

(***************************************************************************)
(* Sorting                                                                 *)
(***************************************************************************)

\* Directory order of filepath.Walk: element by element, names in byte order.
RECURSIVE SegLess(_, _)
SegLess(a, b) ==
    IF b = <<>> THEN FALSE
    ELSE IF a = <<>> THEN TRUE
    ELSE IF Head(a) = Head(b) THEN SegLess(Tail(a), Tail(b))
    ELSE StrLess(Head(a), Head(b))

WalkLess(p, q) == SegLess(Split(p), Split(q))

RECURSIVE SortKeys(_)
SortKeys(S) ==
    IF S = {} THEN <<>>
    ELSE With(CHOOSE x \in S : \A y \in S \ {x} : StrLess(x, y),
              LAMBDA m : With(S \ {m}, LAMBDA rest : <<m>> \o SortKeys(rest)))

RECURSIVE SortWalk(_)
SortWalk(S) ==
    IF S = {} THEN <<>>
    ELSE With(CHOOSE x \in S : \A y \in S \ {x} : WalkLess(x, y),
              LAMBDA m : With(S \ {m}, LAMBDA rest : <<m>> \o SortWalk(rest)))

(***************************************************************************)
(* The local filesystem (package os, filepath.Walk)                        *)
(***************************************************************************)

DirNode == [dir |-> TRUE, data |-> <<>>]
FileNode(data) == [dir |-> FALSE, data |-> data]

\* The working directory "." always exists and is a directory.
IsPath(f, p) == Clean(p) = <<".">> \/ Clean(p) \in DOMAIN f
IsDir(f, p) == Clean(p) = <<".">> \/ (Clean(p) \in DOMAIN f /\ f[Clean(p)].dir)
IsFile(f, p) == Clean(p) \in DOMAIN f /\ ~f[Clean(p)].dir

\* os.Stat
Stat(f, p) ==
    IF ~IsPath(f, p) THEN [ok |-> FALSE, dir |-> FALSE, size |-> 0]
    ELSE IF IsDir(f, p) THEN [ok |-> TRUE, dir |-> TRUE, size |-> 0]
    ELSE [ok |-> TRUE, dir |-> FALSE, size |-> Len(f[Clean(p)].data)]

\* The path and its ancestors up to the working directory.
RECURSIVE Ancestors(_)
Ancestors(p) ==
    With(Clean(p), LAMBDA c :
      IF c = <<".">> \/ c = <<"/">> THEN {}
      ELSE With(Dir(c), LAMBDA parent : {c} \cup Ancestors(parent)))

\* os.MkdirAll: fails when the path or an ancestor is a regular file (nothing is
\* created then); otherwise creates the missing directories.
MkdirAll(f, p) ==
    With(Ancestors(p), LAMBDA anc :
      IF \E a \in anc : IsFile(f, a) THEN [ok |-> FALSE, fs |-> f]
      ELSE [ok |-> TRUE,
            fs |-> [q \in DOMAIN f \cup anc |-> IF q \in DOMAIN f THEN f[q] ELSE DirNode]])

\* os.Create followed by io.Copy of data: the file is created or truncated and
\* holds data; fails when the path is a directory or its parent is none.
WriteFile(f, p, data) ==
    IF IsDir(f, p) \/ ~IsDir(f, Dir(p)) THEN [ok |-> FALSE, fs |-> f]
    ELSE [ok |-> TRUE,
          fs |-> [q \in DOMAIN f \cup {Clean(p)} |->
                     IF q = Clean(p) THEN FileNode(data) ELSE f[q]]]

\* The paths beneath a directory.
Beneath(f, d) ==
    {q \in DOMAIN f : Clean(d) = <<".">> \/ HasPrefix(q, Clean(d) \o <<"/">>)}

\* filepath.Walk(root): the root under the name given, then everything beneath
\* it in directory order, each named filepath.Join(parent, name), hence cleaned.
WalkEntries(f, root) ==
    IF ~IsDir(f, root) THEN <<[path |-> root, dir |-> FALSE]>>
    ELSE <<[path |-> root, dir |-> TRUE]>> \o
         LET below == SortWalk(Beneath(f, root))
         IN  [i \in 1..Len(below) |-> [path |-> below[i], dir |-> f[below[i]].dir]]

(***************************************************************************)
(* Requests and failures                                                   *)
(***************************************************************************)

\* storage.PushStats, storage.PullStats
Stats(count, size) == [FileCount |-> count, TotalSize |-> size]
ZeroStats == Stats(0, 0)

\* An operation carries a world: the bucket, the filesystem, the requests
\* issued so far, each [kind, key], the statistics counted so far, and, in a
\* push over signed URLs, the broker's list and the artifacts it was attached to.
World(s, f) ==
    [store |-> s, fs |-> f, reqs |-> <<>>, stats |-> ZeroStats,
     urls |-> <<>>, artifacts |-> <<>>]

Count(reqs, kind) == Cardinality({i \in 1..Len(reqs) : reqs[i].kind = kind})

Issue(w, kind, key) == [w EXCEPT !.reqs = Append(@, [kind |-> kind, key |-> key])]

NoFault == [kind |-> "none", at |-> 0, text |-> <<>>]

\* strings.Contains
Contains(s, sub) ==
    \E i \in 0..(Len(s) - Len(sub)) : SubSeq(s, i + 1, i + Len(sub)) = sub

\* The message of the error a head request returns for an absent object, of a
\* request refused for lack of permission, and of one that fails because the
\* bucket is missing.
TextNotFound == <<"N", "o", "t", "F", "o", "u", "n", "d">>
TextDenied == <<"4", "0", "3", " ", "d", "e", "n", "i", "e", "d">>
TextNoBucket == <<"4", "0", "4", " ", "b", "u", "c", "k", "e", "t">>

\* The request about to be issued fails: it is the fault.at-th of its kind.
Fails(w, kind, fault) == fault.kind = kind /\ Count(w.reqs, kind) + 1 = fault.at

\* The call's context is cancelled by the time it would send its next request:
\* the signal fires before the fault.at-th request of the call. A request made
\* with a cancelled context returns the context's error and is not sent.
Cancelled(w, fault) == fault.kind = "CANCEL" /\ Len(w.reqs) + 1 >= fault.at

\* The body of the download about to be made breaks before its end: the copy
\* is cancelled or the connection fails, in the fault.at-th download of the
\* call; what has been copied by then lacks the object's last byte.
BodyBreaks(w, fault) == fault.kind = "BODY" /\ Count(w.reqs, "GET") + 1 = fault.at
Truncated(data) == SubSeq(data, 1, Len(data) - 1)

Put(s, key, data) == [k \in DOMAIN s \cup {key} |-> IF k = key THEN data ELSE s[k]]
Delete(s, key) == [k \in DOMAIN s \ {key} |-> s[k]]

Ret(w, res) == [w |-> w, res |-> res]

(***************************************************************************)
(* The direct transport: S3Backend                                         *)
(***************************************************************************)

\* Keys a list request returns at most (the store's page size).
PageSize == 2

\* S3Backend.prefixedKey
prefixedKey(pfx, remotePath) ==
    IF pfx # <<>> THEN Join(pfx, remotePath) ELSE remotePath

\* s3.HeadObject: whether it returns an error, and the error's message.
HeadObject(w, key, fault) ==
    IF Fails(w, "HEAD", fault) THEN [failed |-> TRUE, text |-> fault.text]
    ELSE IF key \in DOMAIN w.store THEN [failed |-> FALSE, text |-> <<>>]
    ELSE [failed |-> TRUE, text |-> TextNotFound]

\* Whether the error's message contains "NotFound" or "404".
LooksNotFound(text) ==
    \/ Contains(text, <<"N", "o", "t", "F", "o", "u", "n", "d">>)
    \/ Contains(text, <<"4", "0", "4">>)

\* S3Backend.Exists: val is the boolean returned.
S3Exists(w, pfx, remotePath, fault) ==
    With(prefixedKey(pfx, remotePath), LAMBDA key :
      With(HeadObject(w, key, fault), LAMBDA err :
        With(Issue(w, "HEAD", key), LAMBDA w1 :
          IF Cancelled(w, fault) THEN [w |-> w, res |-> "ErrCanceled", val |-> FALSE]
          ELSE IF err.failed
          THEN IF LooksNotFound(err.text) THEN [w |-> w1, res |-> "ok", val |-> FALSE]
               ELSE [w |-> w1, res |-> "ErrTransport", val |-> FALSE]
          ELSE [w |-> w1, res |-> "ok", val |-> TRUE])))

\* PutObject appending to the object the key holds.
PutObject_Appends(w, key, data, fault) ==
    IF Cancelled(w, fault) THEN Ret(w, "ErrCanceled")
    ELSE IF Fails(w, "PUT", fault) THEN Ret(Issue(w, "PUT", key), "ErrTransport")
    ELSE Ret([Issue(w, "PUT", key) EXCEPT !.store =
                  Put(@, key, (IF key \in DOMAIN @ THEN @[key] ELSE <<>>) \o data)], "ok")

\* s3.PutObject
PutObject(w, key, data, fault) ==
    IF Cancelled(w, fault) THEN Ret(w, "ErrCanceled")
    ELSE IF Fails(w, "PUT", fault) THEN Ret(Issue(w, "PUT", key), "ErrTransport")
    ELSE Ret([Issue(w, "PUT", key) EXCEPT !.store = Put(@, key, data)], "ok")

\* pushFile without its existence check.
pushFile_Unchecked(w, pfx, localPath, remotePath, force, fault) ==
    With(prefixedKey(pfx, remotePath), LAMBDA key :
      IF ~IsFile(w.fs, localPath) THEN Ret(w, "ErrLocal")
      ELSE PutObject(w, key, w.fs[Clean(localPath)].data, fault))

\* S3Backend.pushFile
pushFile(w, pfx, localPath, remotePath, force, fault) ==
    With(prefixedKey(pfx, remotePath), LAMBDA key :
      With(IF force THEN [w |-> w, res |-> "ok", val |-> FALSE]
           ELSE S3Exists(w, pfx, remotePath, fault), LAMBDA ex :
        IF ex.res # "ok" THEN Ret(ex.w, ex.res)
        ELSE IF ex.val THEN Ret(ex.w, "ErrAlreadyExists")
        ELSE IF ~IsFile(ex.w.fs, localPath) THEN Ret(ex.w, "ErrLocal")
        ELSE PutObject(ex.w, key, ex.w.fs[Clean(localPath)].data, fault)))

\* The walk function of S3Backend.pushDirectory over the entries of the walk:
\* the first error ends the walk.
RECURSIVE pushWalk(_, _, _, _, _, _, _)
pushWalk(w, pfx, entries, localPath, remotePath, force, fault) ==
    IF entries = <<>> THEN Ret(w, "ok")
    ELSE LET e == Head(entries) IN
         IF e.dir
         THEN pushWalk(w, pfx, Tail(entries), localPath, remotePath, force, fault)
         ELSE LET relPath  == Rel(localPath, e.path)
                  destPath == Join(remotePath, ToSlash(relPath))
              IN  With(pushFile(w, pfx, e.path, destPath, force, fault), LAMBDA r :
                    IF r.res # "ok" THEN r
                    ELSE pushWalk(r.w, pfx, Tail(entries), localPath, remotePath,
                                  force, fault))

\* pushDirectory undoing its uploads when a file fails.
pushDirectory_RollsBack(w, pfx, localPath, remotePath, force, fault) ==
    With(WalkEntries(w.fs, localPath), LAMBDA entries :
      With(pushWalk(w, pfx, entries, localPath, remotePath, force, fault), LAMBDA r :
        IF r.res = "ok" THEN r ELSE Ret([r.w EXCEPT !.store = w.store], r.res)))

\* S3Backend.pushDirectory
pushDirectory(w, pfx, localPath, remotePath, force, fault) ==
    With(WalkEntries(w.fs, localPath), LAMBDA entries :
      pushWalk(w, pfx, entries, localPath, remotePath, force, fault))

\* S3Backend.Push
S3Push(w, pfx, localPath, remotePath, force, fault) ==
    LET info == Stat(w.fs, localPath) IN
    IF ~info.ok THEN Ret(w, "ErrLocal")
    ELSE IF info.dir THEN pushDirectory(w, pfx, localPath, remotePath, force, fault)
    ELSE pushFile(w, pfx, localPath, remotePath, force, fault)

\* s3.ListObjectsV2 with Prefix: every key that starts with the prefix, as a
\* string, in byte order.
ListObjectsV2(s, prefix) == SortKeys({k \in DOMAIN s : HasPrefix(k, prefix)})

\* The pages of the paginator: at least one, each of at most PageSize keys.
RECURSIVE Pages(_)
Pages(keys) ==
    IF Len(keys) <= PageSize THEN <<keys>>
    ELSE <<SubSeq(keys, 1, PageSize)>> \o Pages(SubSeq(keys, PageSize + 1, Len(keys)))

\* The pages a listing comes in: a list request may return no key and a
\* continuation token, so the keys may follow pages that are empty.
Paginate(keys, empty) == [i \in 1..empty |-> <<>>] \o Pages(keys)

\* S3Backend.pullFile
pullFile(w, key, localPath, fault) ==
    With(MkdirAll(w.fs, Dir(localPath)), LAMBDA made :
      With(Issue([w EXCEPT !.fs = made.fs], "GET", key), LAMBDA w2 :
        IF ~made.ok THEN Ret(w, "ErrLocal")
        ELSE IF Cancelled(w, fault) THEN Ret([w EXCEPT !.fs = made.fs], "ErrCanceled")
        ELSE IF Fails(w, "GET", fault) THEN Ret(w2, "ErrTransport")
        ELSE IF BodyBreaks(w, fault)
        THEN With(WriteFile(w2.fs, localPath, Truncated(w.store[key])), LAMBDA wr :
               IF ~wr.ok THEN Ret(w2, "ErrLocal")
               ELSE Ret([w2 EXCEPT !.fs = wr.fs], "ErrCopy"))
        ELSE With(WriteFile(w2.fs, localPath, w.store[key]), LAMBDA wr :
               IF ~wr.ok THEN Ret(w2, "ErrLocal")
               ELSE Ret([w2 EXCEPT !.fs = wr.fs], "ok"))))

\* The inner loop of S3Backend.Pull over one page's Contents.
RECURSIVE pullObjects(_, _, _, _, _)
pullObjects(w, objs, key, localPath, fault) ==
    IF objs = <<>> THEN Ret(w, "ok")
    ELSE LET objKey   == Head(objs)
             relPath  == TrimPrefix(objKey, key)
             destPath == Join(localPath, relPath)
         IN  With(pullFile(w, objKey, destPath, fault), LAMBDA r :
               IF r.res # "ok" THEN r
               ELSE pullObjects(r.w, Tail(objs), key, localPath, fault))

\* The outer loop of S3Backend.Pull over the paginator's pages.
RECURSIVE pullPages(_, _, _, _, _, _)
pullPages(w, pages, key, localPath, fault, foundAny) ==
    IF pages = <<>>
    THEN IF ~foundAny THEN Ret(w, "ErrNotFound") ELSE Ret(w, "ok")
    ELSE IF Cancelled(w, fault) THEN Ret(w, "ErrCanceled")
    ELSE IF Fails(w, "LIST", fault) THEN Ret(Issue(w, "LIST", key), "ErrTransport")
    ELSE With(pullObjects(Issue(w, "LIST", key), Head(pages), key, localPath, fault),
              LAMBDA r :
                IF r.res # "ok" THEN r
                ELSE pullPages(r.w, Tail(pages), key, localPath, fault,
                               foundAny \/ Head(pages) # <<>>))

\* Pull taking an empty listing for a success.
S3Pull_EmptyOk(w, pfx, remotePath, localPath, empty, fault) ==
    With(prefixedKey(pfx, remotePath), LAMBDA key :
      With(Paginate(ListObjectsV2(w.store, key), empty), LAMBDA pages :
        pullPages(w, pages, key, localPath, fault, TRUE)))

\* Pull reporting absence as soon as the first page comes back empty.
S3Pull_FirstPage(w, pfx, remotePath, localPath, empty, fault) ==
    With(prefixedKey(pfx, remotePath), LAMBDA key :
      With(Paginate(ListObjectsV2(w.store, key), empty), LAMBDA pages :
        IF Head(pages) = <<>> /\ ~Fails(w, "LIST", fault) /\ ~Cancelled(w, fault)
        THEN Ret(Issue(w, "LIST", key), "ErrNotFound")
        ELSE pullPages(w, pages, key, localPath, fault, FALSE)))

\* S3Backend.Pull
S3Pull(w, pfx, remotePath, localPath, empty, fault) ==
    With(prefixedKey(pfx, remotePath), LAMBDA key :
      With(Paginate(ListObjectsV2(w.store, key), empty), LAMBDA pages :
        pullPages(w, pages, key, localPath, fault, FALSE)))

\* s3.DeleteObject for each of a page's Contents.
RECURSIVE yankObjects(_, _, _)
yankObjects(w, objs, fault) ==
    IF objs = <<>> THEN Ret(w, "ok")
    ELSE IF Cancelled(w, fault) THEN Ret(w, "ErrCanceled")
    ELSE IF Fails(w, "DELETE", fault) THEN Ret(Issue(w, "DELETE", Head(objs)), "ErrTransport")
    ELSE With([Issue(w, "DELETE", Head(objs)) EXCEPT !.store = Delete(@, Head(objs))],
              LAMBDA w1 : yankObjects(w1, Tail(objs), fault))

\* The loop of S3Backend.Yank over the paginator's pages.
RECURSIVE yankPages(_, _, _, _)
yankPages(w, pages, key, fault) ==
    IF pages = <<>> THEN Ret(w, "ok")
    ELSE IF Cancelled(w, fault) THEN Ret(w, "ErrCanceled")
    ELSE IF Fails(w, "LIST", fault) THEN Ret(Issue(w, "LIST", key), "ErrTransport")
    ELSE With(yankObjects(Issue(w, "LIST", key), Head(pages), fault), LAMBDA r :
           IF r.res # "ok" THEN r ELSE yankPages(r.w, Tail(pages), key, fault))

\* Yank listing only the keys beneath the path, as if it named a directory.
S3Yank_Beneath(w, pfx, remotePath, empty, fault) ==
    With(prefixedKey(pfx, remotePath) \o <<"/">>, LAMBDA key :
      With(Paginate(ListObjectsV2(w.store, key), empty), LAMBDA pages :
        yankPages(w, pages, key, fault)))

\* S3Backend.Yank
S3Yank(w, pfx, remotePath, empty, fault) ==
    With(prefixedKey(pfx, remotePath), LAMBDA key :
      With(Paginate(ListObjectsV2(w.store, key), empty), LAMBDA pages :
        yankPages(w, pages, key, fault)))

\* Close returning an error.
S3Close_Errs(w) == Ret(w, "ErrTransport")

\* S3Backend.Close
S3Close(w) == Ret(w, "ok")

(***************************************************************************)
(* The signed-URL transport: HubBackend                                    *)
(***************************************************************************)

\* A key is the path or lies under it in the slash-delimited namespace.
AtOrUnder(key, path) ==
    \/ key = path
    \/ HasPrefix(key, IF path = <<>> \/ path[Len(path)] = "/" THEN path
                      ELSE path \o <<"/">>)

\* The broker's descriptors for one path of a request.
BrokerURLs(s, path, requestType) ==
    LET matched == SortKeys({k \in DOMAIN s : AtOrUnder(k, path)}) IN
    CASE requestType = "PUSH" ->
             <<[method |-> "HEAD", key |-> path], [method |-> "PUT", key |-> path]>>
      [] requestType = "PUSHFORCE" -> <<[method |-> "PUT", key |-> path]>>
      [] requestType = "PULL" ->
             [i \in 1..Len(matched) |-> [method |-> "GET", key |-> matched[i]]]
      [] requestType = "YANK" ->
             [i \in 1..Len(matched) |-> [method |-> "DELETE", key |-> matched[i]]]

RECURSIVE BrokerAll(_, _, _)
BrokerAll(s, paths, requestType) ==
    IF paths = <<>> THEN <<>>
    ELSE BrokerURLs(s, Head(paths), requestType) \o BrokerAll(s, Tail(paths), requestType)

\* The answer of a broker that miscounts the descriptors of a push: the list
\* lacks its last descriptor, or holds it twice.
Miscounted(urls, requestType, fault) ==
    IF requestType \notin {"PUSH", "PUSHFORCE"} \/ urls = <<>> THEN urls
    ELSE IF fault.kind = "SHORT" THEN SubSeq(urls, 1, Len(urls) - 1)
    ELSE IF fault.kind = "LONG" THEN Append(urls, urls[Len(urls)])
    ELSE urls

\* hub.Client.GenerateSignedURLs: one broker request for all the paths.
GenerateSignedURLs(w, paths, requestType, fault) ==
    With(Issue(w, "BROKER", [type |-> requestType, paths |-> paths]), LAMBDA w1 :
      IF Fails(w, "BROKER", fault)
      THEN [w |-> w1, ok |-> FALSE, Urls |-> <<>>]
      ELSE [w |-> w1, ok |-> TRUE,
            Urls |-> Miscounted(BrokerAll(w.store, paths, requestType), requestType, fault)])

\* api.SignedURL.GetObject: the key the URL names.
GetObject(signedURL) == signedURL.key

\* api.SignedURL.Follow: the HTTP request the descriptor names. A read-check
\* that finds the object is a conflict; not found lets the push go on.
Follow(w, signedURL, artifact, fault) ==
    LET m == signedURL.method
        k == signedURL.key
    IN  With(Issue(w, m, k), LAMBDA w1 :
        IF Fails(w, m, fault) THEN Ret(w1, "ErrTransport")
        ELSE CASE m = "HEAD" ->
                      IF k \in DOMAIN w.store THEN Ret(w1, "ErrAlreadyExists")
                      ELSE Ret(w1, "ok")
               [] m = "PUT" ->
                      IF ~IsFile(w.fs, artifact.LocalPath) THEN Ret(w1, "ErrLocal")
                      ELSE Ret([w1 EXCEPT !.store =
                                    Put(@, k, w.fs[Clean(artifact.LocalPath)].data)], "ok")
               [] m = "GET" ->
                      IF k \notin DOMAIN w.store THEN Ret(w1, "ErrNotFound")
                      ELSE With(MkdirAll(w.fs, Dir(artifact.LocalPath)), LAMBDA made :
                           With(WriteFile(made.fs, artifact.LocalPath, w.store[k]),
                                LAMBDA wr :
                                  IF ~made.ok \/ ~wr.ok THEN Ret(w1, "ErrLocal")
                                  ELSE Ret([w1 EXCEPT !.fs = wr.fs], "ok")))
               [] m = "DELETE" -> Ret([w1 EXCEPT !.store = Delete(@, k)], "ok"))

Artifact(remotePath, localPath, urls) ==
    [RemotePath |-> remotePath, LocalPath |-> localPath, URLs |-> urls]

\* The walk function of locateArtifactsForPush over the entries of the walk. The
\* slice name[len(localPath):] panics when localPath is the longer string.
RECURSIVE locateWalk(_, _, _, _)
locateWalk(entries, localPath, remotePath, artifacts) ==
    IF entries = <<>> THEN [res |-> "ok", artifacts |-> artifacts]
    ELSE LET e    == Head(entries)
             name == ToSlash(e.path)
         IN  IF e.dir THEN locateWalk(Tail(entries), localPath, remotePath, artifacts)
             ELSE IF Len(localPath) > Len(name)
             THEN [res |-> "panic", artifacts |-> artifacts]
             ELSE locateWalk(Tail(entries), localPath, remotePath,
                     Append(artifacts,
                            Artifact(Join(remotePath,
                                          SubSeq(name, Len(localPath) + 1, Len(name))),
                                     e.path, <<>>)))

\* locateArtifactsForPush
locateArtifactsForPush(f, localPath, remotePath) ==
    IF ~IsPath(f, localPath) THEN [res |-> "ErrLocal", artifacts |-> <<>>]
    ELSE IF IsFile(f, localPath)
    THEN [res |-> "ok", artifacts |-> <<Artifact(remotePath, localPath, <<>>)>>]
    ELSE locateWalk(WalkEntries(f, localPath), localPath, remotePath, <<>>)

\* api.RemotePaths
RemotePaths(artifacts) == [i \in 1..Len(artifacts) |-> artifacts[i].RemotePath]

\* attachURLsToArtifacts refusing only a list that is too short.
attachURLsToArtifacts_AtLeast(artifacts, signedURLs, force) ==
    LET expectedURLs == IF force THEN Len(artifacts) ELSE Len(artifacts) * 2 IN
    IF Len(signedURLs) < expectedURLs
    THEN [res |-> "ErrMalformed", artifacts |-> artifacts]
    ELSE [res |-> "ok",
          artifacts |-> [i \in 1..Len(artifacts) |->
              [artifacts[i] EXCEPT !.URLs =
                  IF force THEN <<signedURLs[i]>>
                  ELSE <<signedURLs[2 * i - 1], signedURLs[2 * i]>>]]]

\* attachURLsToArtifacts never advancing its index into the list.
attachURLsToArtifacts_Shared(artifacts, signedURLs, force) ==
    LET expectedURLs == IF force THEN Len(artifacts) ELSE Len(artifacts) * 2 IN
    IF Len(signedURLs) # expectedURLs
    THEN [res |-> "ErrMalformed", artifacts |-> artifacts]
    ELSE [res |-> "ok",
          artifacts |-> [i \in 1..Len(artifacts) |->
              [artifacts[i] EXCEPT !.URLs =
                  IF force THEN <<signedURLs[1]>>
                  ELSE <<signedURLs[1], signedURLs[2]>>]]]

\* attachURLsToArtifacts giving each file its write descriptor first.
attachURLsToArtifacts_WriteFirst(artifacts, signedURLs, force) ==
    LET expectedURLs == IF force THEN Len(artifacts) ELSE Len(artifacts) * 2 IN
    IF Len(signedURLs) # expectedURLs
    THEN [res |-> "ErrMalformed", artifacts |-> artifacts]
    ELSE [res |-> "ok",
          artifacts |-> [i \in 1..Len(artifacts) |->
              [artifacts[i] EXCEPT !.URLs =
                  IF force THEN <<signedURLs[i]>>
                  ELSE <<signedURLs[2 * i], signedURLs[2 * i - 1]>>]]]

\* attachURLsToArtifacts
attachURLsToArtifacts(artifacts, signedURLs, force) ==
    LET expectedURLs == IF force THEN Len(artifacts) ELSE Len(artifacts) * 2 IN
    IF Len(signedURLs) # expectedURLs
    THEN [res |-> "ErrMalformed", artifacts |-> artifacts]
    ELSE [res |-> "ok",
          artifacts |-> [i \in 1..Len(artifacts) |->
              [artifacts[i] EXCEPT !.URLs =
                  IF force THEN <<signedURLs[i]>>
                  ELSE <<signedURLs[2 * i - 1], signedURLs[2 * i]>>]]]

\* Following an artifact's descriptors in order; the first error ends it.
RECURSIVE followAll(_, _, _, _)
followAll(w, urls, artifact, fault) ==
    IF urls = <<>> THEN Ret(w, "ok")
    ELSE With(Follow(w, Head(urls), artifact, fault), LAMBDA r :
           IF r.res # "ok" THEN r ELSE followAll(r.w, Tail(urls), artifact, fault))

\* The statistics loop of executePush counting a file once for every
\* descriptor it carries.
pushStats_EveryURL(stats, urls, size) ==
    Stats(stats.FileCount + Len(urls), stats.TotalSize + Len(urls) * size)

\* The statistics loop of executePush over an artifact's descriptors: the file
\* counts once, at its first PUT descriptor.
pushStats(stats, urls, size) ==
    IF \E i \in 1..Len(urls) : urls[i].method = "PUT"
    THEN Stats(stats.FileCount + 1, stats.TotalSize + size)
    ELSE stats

\* executePush
RECURSIVE executePush(_, _, _)
executePush(w, artifacts, fault) ==
    IF artifacts = <<>> THEN Ret(w, "ok")
    ELSE With(Stat(w.fs, Head(artifacts).LocalPath), LAMBDA fileInfo :
      IF ~fileInfo.ok THEN Ret(w, "ErrLocal")
      ELSE With(followAll(w, Head(artifacts).URLs, Head(artifacts), fault), LAMBDA r :
        IF r.res # "ok" THEN r
        ELSE executePush([r.w EXCEPT !.stats =
                              pushStats(@, Head(artifacts).URLs, fileInfo.size)],
                         Tail(artifacts), fault)))

\* HubBackend.Push asking the broker for an unforced push whatever Force is.
HubPush_NeverForce(w, localPath, remotePath, force, fault) ==
    LET requestType == "PUSH" IN
    With(locateArtifactsForPush(w.fs, localPath, remotePath), LAMBDA located :
      IF located.res # "ok" THEN Ret(w, located.res)
      ELSE With(GenerateSignedURLs(w, RemotePaths(located.artifacts), requestType, fault),
                LAMBDA response :
        IF ~response.ok THEN Ret(response.w, "ErrTransport")
        ELSE With(attachURLsToArtifacts(located.artifacts, response.Urls, force),
                  LAMBDA attached :
          IF attached.res # "ok" THEN Ret(response.w, attached.res)
          ELSE executePush([response.w EXCEPT !.urls = response.Urls,
                                              !.artifacts = attached.artifacts],
                           attached.artifacts, fault))))

\* HubBackend.Push
HubPush(w, localPath, remotePath, force, fault) ==
    LET requestType == IF force THEN "PUSHFORCE" ELSE "PUSH" IN
    With(locateArtifactsForPush(w.fs, localPath, remotePath), LAMBDA located :
      IF located.res # "ok" THEN Ret(w, located.res)
      ELSE With(GenerateSignedURLs(w, RemotePaths(located.artifacts), requestType, fault),
                LAMBDA response :
        IF ~response.ok THEN Ret(response.w, "ErrTransport")
        ELSE With(attachURLsToArtifacts(located.artifacts, response.Urls, force),
                  LAMBDA attached :
          IF attached.res # "ok" THEN Ret(response.w, attached.res)
          ELSE executePush([response.w EXCEPT !.urls = response.Urls,
                                              !.artifacts = attached.artifacts],
                           attached.artifacts, fault))))

\* buildArtifactsForPull: the slice obj[len(remotePath):] panics when remotePath
\* is the longer string.
RECURSIVE buildArtifactsForPull(_, _, _, _, _, _)
buildArtifactsForPull(f, signedURLs, remotePath, localPath, force, artifacts) ==
    IF signedURLs = <<>> THEN [res |-> "ok", artifacts |-> artifacts]
    ELSE LET obj      == GetObject(Head(signedURLs))
             destPath == Join(localPath, SubSeq(obj, Len(remotePath) + 1, Len(obj)))
         IN  IF Len(remotePath) > Len(obj) THEN [res |-> "panic", artifacts |-> artifacts]
             ELSE IF ~force /\ Stat(f, destPath).ok
             THEN [res |-> "ErrExistsLocally", artifacts |-> artifacts]
             ELSE buildArtifactsForPull(f, Tail(signedURLs), remotePath, localPath, force,
                      Append(artifacts, Artifact(obj, destPath, <<Head(signedURLs)>>)))

\* The inner loop of executePull: each descriptor is followed, and the file is
\* counted when it is there afterwards.
RECURSIVE followCounting(_, _, _, _)
followCounting(w, urls, artifact, fault) ==
    IF urls = <<>> THEN Ret(w, "ok")
    ELSE With(Follow(w, Head(urls), artifact, fault), LAMBDA r :
      IF r.res # "ok" THEN r
      ELSE With(Stat(r.w.fs, artifact.LocalPath), LAMBDA fileInfo :
        followCounting(
            IF fileInfo.ok
            THEN [r.w EXCEPT !.stats = Stats(@.FileCount + 1, @.TotalSize + fileInfo.size)]
            ELSE r.w,
            Tail(urls), artifact, fault)))

\* executePull
RECURSIVE executePull(_, _, _)
executePull(w, artifacts, fault) ==
    IF artifacts = <<>> THEN Ret(w, "ok")
    ELSE With(followCounting(w, Head(artifacts).URLs, Head(artifacts), fault), LAMBDA r :
           IF r.res # "ok" THEN r ELSE executePull(r.w, Tail(artifacts), fault))

\* HubBackend.Pull
HubPull(w, remotePath, localPath, force, fault) ==
    With(GenerateSignedURLs(w, <<remotePath>>, "PULL", fault), LAMBDA response :
      IF ~response.ok THEN Ret(response.w, "ErrTransport")
      ELSE IF Len(response.Urls) = 0 THEN Ret(response.w, "ErrNotFound")
      ELSE With(buildArtifactsForPull(w.fs, response.Urls, remotePath, localPath,
                                      force, <<>>), LAMBDA built :
        IF built.res # "ok" THEN Ret(response.w, built.res)
        ELSE executePull(response.w, built.artifacts, fault)))

\* executeYank: every descriptor is followed with the DELETE method.
RECURSIVE executeYank(_, _, _)
executeYank(w, signedURLs, fault) ==
    IF signedURLs = <<>> THEN Ret(w, "ok")
    ELSE LET u == [Head(signedURLs) EXCEPT !.method = "DELETE"]
         IN  With(Follow(w, u, Artifact(<<>>, <<>>, <<>>), fault), LAMBDA r :
               IF r.res # "ok" THEN r ELSE executeYank(r.w, Tail(signedURLs), fault))

\* Yank refusing an empty URL list the way Pull does.
HubYank_NotFound(w, remotePath, fault) ==
    With(GenerateSignedURLs(w, <<remotePath>>, "YANK", fault), LAMBDA response :
      IF ~response.ok THEN Ret(response.w, "ErrTransport")
      ELSE IF Len(response.Urls) = 0 THEN Ret(response.w, "ErrNotFound")
      ELSE executeYank(response.w, response.Urls, fault))

\* HubBackend.Yank
HubYank(w, remotePath, fault) ==
    With(GenerateSignedURLs(w, <<remotePath>>, "YANK", fault), LAMBDA response :
      IF ~response.ok THEN Ret(response.w, "ErrTransport")
      ELSE executeYank(response.w, response.Urls, fault))

\* HubBackend.Exists: val is the boolean returned.
HubExists(w, remotePath, fault) ==
    With(GenerateSignedURLs(w, <<remotePath>>, "PULL", fault), LAMBDA response :
      IF ~response.ok THEN [w |-> response.w, res |-> "ErrTransport", val |-> FALSE]
      ELSE [w |-> response.w, res |-> "ok", val |-> Len(response.Urls) > 0])

\* HubBackend.Close
HubClose(w) == Ret(w, "ok")

(***************************************************************************)
(* The inputs of the model                                                 *)
(***************************************************************************)

\* Calls in one run of the program when every request is answered.
MaxOps == 2

\* Calls in one run of the program when a request of each call fails.
MaxFaultyOps == 1

\* The latest request of a kind, counted within a call, that may fail.
MaxFaultAt == 2

\* The most empty pages a listing returns before its keys.
MaxEmptyPages == 1

pR == <<"r">>
pRA == <<"r", "/", "a">>
pRX == <<"r", "x">>
pRSB == <<"r", "/", "s", "/", "b">>
pRSlash == <<"r", "/">>
pF == <<"f">>
pD == <<"d">>
pDotD == <<".", "/", "d">>
pDA == <<"d", "/", "a">>
pDS == <<"d", "/", "s">>
pDSB == <<"d", "/", "s", "/", "b">>
pO == <<"o">>
pOA == <<"o", "/", "a">>
pP == <<"p">>

\* Objects a bucket may hold at the start, under the caller's keys: a file, a
\* file beneath it in the namespace, and a key that only starts with "r".
BaseObjects ==
    (pR :> <<3>>) @@ (pRA :> <<3, 1>>) @@ (pRX :> <<2, 3>>) @@ (pRSB :> <<2, 2, 2>>)

KeySets == {{}, {pR}, {pRX}, {pRA, pRX}, {pR, pRA}, {pRSB}}

\* The bucket holding the objects B, each under its prefixed key.
StoreOf(pfx, B) ==
    [k \in {prefixedKey(pfx, b) : b \in B} |->
        BaseObjects[CHOOSE b \in B : prefixedKey(pfx, b) = k]]

InitStores(pfx) == {StoreOf(pfx, B) : B \in KeySets}

\* The objects of the bucket in the runs where a request fails: more than a page.
FaultyKeys == {pR, pRA, pRX}

\* The local tree to push from: a file, and a directory with files at two depths.
BaseTree ==
    (pF :> FileNode(<<1>>)) @@ (pD :> DirNode) @@ (pDA :> FileNode(<<2>>)) @@
    (pDS :> DirNode) @@ (pDSB :> FileNode(<<1, 2>>))

\* The pull destination "o" is absent, a file, or a directory holding a file.
InitTrees ==
    {BaseTree,
     (pO :> FileNode(<<4>>)) @@ BaseTree,
     (pO :> DirNode) @@ (pOA :> FileNode(<<4>>)) @@ BaseTree}

Prefixes == {<<>>, pP}
\* What is pushed where: the file to a key and to a key beneath it, the
\* directory under its cleaned name and under one that is not.
PushArgs ==
    {[local |-> pF, remote |-> pR], [local |-> pF, remote |-> pRA],
     [local |-> pD, remote |-> pR], [local |-> pDotD, remote |-> pR]}
Remotes == {pR}
\* What the direct transport pulls: the key, and the key written as a directory.
PullRemotes == {pR, pRSlash}
PullLocals == {pO}

\* The requests each transport issues.
RequestKinds(tr) ==
    IF tr = "s3" THEN {"HEAD", "PUT", "LIST", "GET", "DELETE"}
    ELSE {"BROKER", "HEAD", "PUT", "GET", "DELETE"}

\* A request of a call fails; a head request of the direct transport also fails
\* for a missing bucket; the broker answers a push with a miscounted list.
Faults(tr) ==
    [kind : RequestKinds(tr), at : 1..MaxFaultAt, text : {TextDenied}] \cup
    (IF tr = "s3" THEN [kind : {"HEAD"}, at : 1..MaxFaultAt, text : {TextNoBucket}]
     ELSE [kind : {"SHORT", "LONG"}, at : {1}, text : {<<>>}])

(***************************************************************************)
(* The factory: GetBackendType, NewBackend and the constructor registry    *)
(***************************************************************************)

BackendTypeHub == "hub"
BackendTypeS3 == "s3"

\* GetBackendType reading the configuration file before the environment.
GetBackendType_ConfigFirst(env, config) ==
    IF config # "" /\ config = "s3" THEN BackendTypeS3
    ELSE IF config # "" /\ config = "hub" THEN BackendTypeHub
    ELSE IF env # "" /\ env = "s3" THEN BackendTypeS3
    ELSE IF env # "" /\ env = "hub" THEN BackendTypeHub
    ELSE BackendTypeHub

\* GetBackendType: the environment variable, then the configuration file, then
\* hub; a value that names no backend falls through.
GetBackendType(env, config) ==
    IF env # "" /\ env = "s3" THEN BackendTypeS3
    ELSE IF env # "" /\ env = "hub" THEN BackendTypeHub
    ELSE IF config # "" /\ config = "s3" THEN BackendTypeS3
    ELSE IF config # "" /\ config = "hub" THEN BackendTypeHub
    ELSE BackendTypeHub

\* What a call of a constructor variable gives: a crash when it is nil, else
\* what the constructor returns, a backend or a configuration error.
CallConstructor(fn, kind, configured) ==
    IF fn = "nil" THEN [backend |-> "nil", err |-> "panic"]
    ELSE IF configured THEN [backend |-> kind, err |-> "nil"]
    ELSE [backend |-> "nil", err |-> "ErrConfig"]

\* NewBackend as defined with the registration checks.
NewBackend(backendType, hubFn, s3Fn, configured) ==
    CASE backendType = BackendTypeHub ->
             IF hubFn = "nil" THEN [backend |-> "nil", err |-> "ErrNotRegistered"]
             ELSE CallConstructor(hubFn, BackendTypeHub, configured)
      [] backendType = BackendTypeS3 ->
             IF s3Fn = "nil" THEN [backend |-> "nil", err |-> "ErrNotRegistered"]
             ELSE CallConstructor(s3Fn, BackendTypeS3, configured)
      [] OTHER -> [backend |-> "nil", err |-> "ErrUnknownType"]

\* NewBackend as defined a second time, calling the constructor variable
\* without a check.
NewBackendLazy(backendType, hubFn, s3Fn, configured) ==
    CASE backendType = BackendTypeHub -> CallConstructor(hubFn, BackendTypeHub, configured)
      [] backendType = BackendTypeS3 -> CallConstructor(s3Fn, BackendTypeS3, configured)
      [] OTHER -> [backend |-> "nil", err |-> "ErrUnknownType"]

\* The values of the environment variable and of the configuration key: unset,
\* the two backends, and two values that name no backend.
BackendValues == {"", "s3", "hub", "gcs", "S3"}

\* The constructor variable NewBackend uses for a kind.
ConstructorOf(backendType, hubFn, s3Fn) ==
    IF backendType = BackendTypeHub THEN hubFn ELSE s3Fn

\* What a call of the factory returned; fn: the constructor variable of the
\* selected kind when NewBackend was called.
NoBuild == [op |-> "none", type |-> "", fn |-> "nil", backend |-> "nil", err |-> "nil"]

(***************************************************************************)
(* The configuration of the direct transport (s3backend.LoadConfig)        *)
(***************************************************************************)

\* s3backend.Config, and the value LoadConfig starts from.
Config(bucket, region, endpoint, forcePathStyle, prefix) ==
    [Bucket |-> bucket, Region |-> region, Endpoint |-> endpoint,
     ForcePathStyle |-> forcePathStyle, Prefix |-> prefix]

ZeroConfig == Config("", "", "", FALSE, "")

\* LoadConfig: the environment first, the configuration file for what is still
\* the zero value, and an error without a bucket.
LoadConfig(env, file) ==
    With(Config(env.Bucket, env.Region, env.Endpoint, env.ForcePathStyle = "true",
                env.Prefix),
         LAMBDA fromEnv :
    With(Config(IF fromEnv.Bucket = "" THEN file.Bucket ELSE fromEnv.Bucket,
                IF fromEnv.Region = "" THEN file.Region ELSE fromEnv.Region,
                IF fromEnv.Endpoint = "" THEN file.Endpoint ELSE fromEnv.Endpoint,
                IF ~fromEnv.ForcePathStyle THEN file.ForcePathStyle
                ELSE fromEnv.ForcePathStyle,
                IF fromEnv.Prefix = "" THEN file.Prefix ELSE fromEnv.Prefix),
         LAMBDA cfg :
           IF cfg.Bucket = "" THEN [ok |-> FALSE, cfg |-> ZeroConfig]
           ELSE [ok |-> TRUE, cfg |-> cfg]))

\* The environment: each variable unset or set, the force-path-style one to
\* "true" or to "false"; the file: each key absent or present.
Environments ==
    [Bucket : {"", "eb"}, Region : {"", "er"}, Endpoint : {"", "ee"},
     ForcePathStyle : {"", "true", "false"}, Prefix : {"", "ep"}]

Files ==
    [Bucket : {"", "fb"}, Region : {"", "fr"}, Endpoint : {"", "fe"},
     ForcePathStyle : BOOLEAN, Prefix : {"", "fp"}]

NoLoad == [op |-> "none", ok |-> FALSE, cfg |-> ZeroConfig]

\* No configuration is being loaded.
ConfigIdle ==
    /\ s3Env = Config("", "", "", "", "")
    /\ s3File = Config("", "", "", FALSE, "")
    /\ loaded = NoLoad

(***************************************************************************)
(* The state machine: one action per Backend method                        *)
(***************************************************************************)

\* The sum of the sizes of the files among the entries of a walk.
RECURSIVE SizeOf(_, _)
SizeOf(f, entries) ==
    IF entries = <<>> THEN 0
    ELSE (IF Head(entries).dir THEN 0 ELSE Stat(f, Head(entries).path).size)
         + SizeOf(f, Tail(entries))

\* getPullStats: the files at or beneath the destination, and their sizes.
getPullStats(f, localPath) ==
    With(Stat(f, localPath), LAMBDA info :
      IF ~info.ok THEN ZeroStats
      ELSE IF ~info.dir THEN Stats(1, info.size)
      ELSE With(WalkEntries(f, localPath), LAMBDA entries :
             Stats(Len(SelectSeq(entries, LAMBDA e : ~e.dir)), SizeOf(f, entries))))

\* The statistics reported for a call that returned r: those of getPullStats
\* after a pull (runPullForCategory), those executePush returned after a push.
Reported(op, localPath, r) ==
    IF r.res # "ok" THEN ZeroStats
    ELSE IF op = "Pull" THEN getPullStats(r.w.fs, localPath)
    ELSE IF op = "Push" THEN r.w.stats
    ELSE ZeroStats

NoCall ==
    [op |-> "none", local |-> <<>>, remote |-> <<>>, force |-> FALSE,
     res |-> "ok", val |-> FALSE, reqs |-> <<>>, store0 |-> <<>>, fs0 |-> <<>>,
     counted |-> ZeroStats, stats |-> ZeroStats, urls |-> <<>>, artifacts |-> <<>>]

\* The record of a call that returned r from the world w0; counted: what
\* executePush or executePull counted; stats: what is reported for the call;
\* urls, artifacts: the broker's list and the artifacts a push attached it to.
Call(op, localPath, remotePath, force, r, val, w0) ==
    [op |-> op, local |-> localPath, remote |-> remotePath, force |-> force,
     res |-> r.res, val |-> val, reqs |-> r.w.reqs,
     store0 |-> w0.store, fs0 |-> w0.fs,
     counted |-> r.w.stats, stats |-> Reported(op, localPath, r),
     urls |-> r.w.urls, artifacts |-> r.w.artifacts]

\* The regular files beneath a directory, by slash-normalised relative path.
RelFiles(f, root) ==
    [rel \in {ToSlash(Rel(root, q)) : q \in {x \in Beneath(f, root) : ~f[x].dir}} |->
        f[Join(root, rel)].data]

\* What is kept of a call once the next one returns; held: its key held an
\* object before it; free: no object was at or under its key; file, data: its
\* local path was a regular file, of this content; tree: the files beneath its
\* local path, a directory.
Summary(c, pfx) ==
    [op |-> c.op, local |-> c.local, remote |-> c.remote, force |-> c.force,
     res |-> c.res, val |-> c.val,
     held |-> prefixedKey(pfx, c.remote) \in DOMAIN c.store0,
     free |-> \A k \in DOMAIN c.store0 : ~AtOrUnder(k, prefixedKey(pfx, c.remote)),
     file |-> c.op = "Push" /\ IsFile(c.fs0, c.local),
     data |-> IF c.op = "Push" /\ IsFile(c.fs0, c.local)
              THEN c.fs0[Clean(c.local)].data ELSE <<>>,
     tree |-> IF c.op = "Push" /\ c.local # <<>> /\ IsDir(c.fs0, c.local)
              THEN RelFiles(c.fs0, c.local) ELSE <<>>]

\* Every request is answered; or a request of each call fails, from a bucket
\* that holds more than a page of objects. Listings come with empty pages in
\* runs with no prefix that start from the tree with no pull destination.
Init ==
    /\ transport \in {"s3", "hub"}
    /\ cfgPrefix \in (IF transport = "s3" THEN Prefixes ELSE {<<>>})
    /\ fs \in InitTrees
    /\ \/ /\ faultPlan = NoFault
          /\ store \in InitStores(cfgPrefix)
          /\ emptyPages \in (IF transport = "s3" /\ cfgPrefix = <<>> /\ fs = BaseTree
                              THEN 0..MaxEmptyPages ELSE {0})
       \/ /\ faultPlan \in Faults(transport)
          /\ store = StoreOf(cfgPrefix, FaultyKeys)
          /\ emptyPages = 0
    /\ last = NoCall
    /\ prev = Summary(NoCall, <<>>)
    /\ nops = 0
    /\ clients = <<>>
    /\ envBackend = transport
    /\ configBackend = ""
    /\ newHubBackend = "fn"
    /\ newS3Backend = "fn"
    /\ ConfigIdle
    /\ factory = "checked"
    /\ got = [op |-> "NewBackend", type |-> transport, fn |-> "fn",
              backend |-> transport, err |-> "nil"]

\* A call may be made: the run has calls left and the process has not crashed.
CanCall(tr) ==
    /\ transport = tr
    /\ nops < (IF faultPlan = NoFault THEN MaxOps ELSE MaxFaultyOps)
    /\ last.res # "panic"

\* The state after a call that returned r.
Returned(c, r) ==
    /\ store' = r.w.store
    /\ fs' = r.w.fs
    /\ last' = c
    /\ prev' = Summary(last, cfgPrefix)
    /\ nops' = nops + 1
    /\ UNCHANGED <<transport, cfgPrefix, emptyPages, faultPlan, clients, factoryVars, configVars>>

S3PushCall ==
    \E args \in PushArgs, force \in BOOLEAN :
        /\ CanCall("s3")
        /\ \E w0 \in {World(store, fs)} :
           \E r \in {S3Push(w0, cfgPrefix, args.local, args.remote, force, faultPlan)} :
               Returned(Call("Push", args.local, args.remote, force, r, FALSE, w0), r)

\* S3Backend.Pull takes no options: the call carries no force flag.
S3PullCall ==
    \E remotePath \in PullRemotes, localPath \in PullLocals :
        /\ CanCall("s3")
        /\ \E w0 \in {World(store, fs)} :
           \E r \in {S3Pull(w0, cfgPrefix, remotePath, localPath, emptyPages, faultPlan)} :
               Returned(Call("Pull", localPath, remotePath, FALSE, r, FALSE, w0), r)

S3YankCall ==
    \E remotePath \in Remotes :
        /\ CanCall("s3")
        /\ \E w0 \in {World(store, fs)} :
           \E r \in {S3Yank(w0, cfgPrefix, remotePath, emptyPages, faultPlan)} :
               Returned(Call("Yank", <<>>, remotePath, FALSE, r, FALSE, w0), r)

S3ExistsCall ==
    \E remotePath \in Remotes :
        /\ CanCall("s3")
        /\ \E w0 \in {World(store, fs)} :
           \E r \in {S3Exists(w0, cfgPrefix, remotePath, faultPlan)} :
               Returned(Call("Exists", <<>>, remotePath, FALSE, r, r.val, w0), r)

\* S3Backend.Close
S3CloseCall ==
    /\ CanCall("s3")
    /\ \E w0 \in {World(store, fs)} :
       \E r \in {S3Close(w0)} :
           Returned(Call("Close", <<>>, <<>>, FALSE, r, FALSE, w0), r)

HubPushCall ==
    \E args \in PushArgs, force \in BOOLEAN :
        /\ CanCall("hub")
        /\ \E w0 \in {World(store, fs)} :
           \E r \in {HubPush(w0, args.local, args.remote, force, faultPlan)} :
               Returned(Call("Push", args.local, args.remote, force, r, FALSE, w0), r)

HubPullCall ==
    \E remotePath \in Remotes, localPath \in PullLocals, force \in BOOLEAN :
        /\ CanCall("hub")
        /\ \E w0 \in {World(store, fs)} :
           \E r \in {HubPull(w0, remotePath, localPath, force, faultPlan)} :
               Returned(Call("Pull", localPath, remotePath, force, r, FALSE, w0), r)

HubYankCall ==
    \E remotePath \in Remotes :
        /\ CanCall("hub")
        /\ \E w0 \in {World(store, fs)} :
           \E r \in {HubYank(w0, remotePath, faultPlan)} :
               Returned(Call("Yank", <<>>, remotePath, FALSE, r, FALSE, w0), r)

HubExistsCall ==
    \E remotePath \in Remotes :
        /\ CanCall("hub")
        /\ \E w0 \in {World(store, fs)} :
           \E r \in {HubExists(w0, remotePath, faultPlan)} :
               Returned(Call("Exists", <<>>, remotePath, FALSE, r, r.val, w0), r)

\* HubBackend.Close
HubCloseCall ==
    /\ CanCall("hub")
    /\ \E w0 \in {World(store, fs)} :
       \E r \in {HubClose(w0)} :
           Returned(Call("Close", <<>>, <<>>, FALSE, r, FALSE, w0), r)

Next ==
    \/ S3PushCall
    \/ S3PullCall
    \/ S3YankCall
    \/ S3ExistsCall
    \/ S3CloseCall
    \/ HubPushCall
    \/ HubPullCall
    \/ HubYankCall
    \/ HubExistsCall
    \/ HubCloseCall

Spec == Init /\ [][Next]_vars

(***************************************************************************)
(* The calls of a caller that cancels: the context of each call is         *)
(* cancelled before one of its requests.                                   *)
(***************************************************************************)

Cancellations == [kind : {"CANCEL"}, at : 1..(MaxFaultAt + 1), text : {<<>>}]

\* A download of the direct transport that breaks while its body is copied.
BrokenBodies == [kind : {"BODY"}, at : 1..MaxFaultAt, text : {<<>>}]

InitCancel ==
    /\ transport \in {"s3", "hub"}
    /\ cfgPrefix \in (IF transport = "s3" THEN Prefixes ELSE {<<>>})
    /\ fs \in InitTrees
    /\ faultPlan \in Cancellations \cup (IF transport = "s3" THEN BrokenBodies ELSE {})
    /\ store \in InitStores(cfgPrefix)
    /\ emptyPages = 0
    /\ last = NoCall
    /\ prev = Summary(NoCall, <<>>)
    /\ nops = 0
    /\ clients = <<>>
    /\ envBackend = transport
    /\ configBackend = ""
    /\ newHubBackend = "fn"
    /\ newS3Backend = "fn"
    /\ ConfigIdle
    /\ factory = "checked"
    /\ got = [op |-> "NewBackend", type |-> transport, fn |-> "fn",
              backend |-> transport, err |-> "nil"]

SpecCancel == InitCancel /\ [][Next]_vars

(***************************************************************************)
(* The calls over a bucket that holds a key with a ".." element: S3 keys   *)
(* are arbitrary strings, and such a key lies under "r/" as a string.      *)
(***************************************************************************)

\* The buckets at the start: the key "r/../x" alone, and beside a key under "r/".
EscapeStores ==
    LET pRUp == <<"r", "/", ".", ".", "/", "x">>
    IN  {pRUp :> <<5>>, (pRA :> <<3, 1>>) @@ (pRUp :> <<5>>)}

InitEscape ==
    /\ transport \in {"s3", "hub"}
    /\ cfgPrefix = <<>>
    /\ fs \in InitTrees
    /\ faultPlan = NoFault
    /\ store \in EscapeStores
    /\ emptyPages = 0
    /\ last = NoCall
    /\ prev = Summary(NoCall, <<>>)
    /\ nops = 0
    /\ clients = <<>>
    /\ envBackend = transport
    /\ configBackend = ""
    /\ newHubBackend = "fn"
    /\ newS3Backend = "fn"
    /\ ConfigIdle
    /\ factory = "checked"
    /\ got = [op |-> "NewBackend", type |-> transport, fn |-> "fn",
              backend |-> transport, err |-> "nil"]

SpecEscape == InitEscape /\ [][Next]_vars

(***************************************************************************)
(* The direct transport under the prefix "p", called with remote paths the *)
(* caller is free to write, one of them climbing with "..".                *)
(***************************************************************************)

\* The remote paths the caller gives: "r" and "../x".
ConfineRemotes == {pR, <<".", ".", "/", "x">>}

\* The buckets at the start: the keys "x", outside the prefix, and "p/r", under
\* it, each held or not.
ConfineStores ==
    {[k \in B |-> IF k = <<"x">> THEN <<4>> ELSE <<3>>] :
        B \in SUBSET {<<"x">>, <<"p", "/", "r">>}}

InitConfine ==
    /\ transport = "s3"
    /\ cfgPrefix = pP
    /\ fs \in InitTrees
    /\ faultPlan = NoFault
    /\ store \in ConfineStores
    /\ emptyPages = 0
    /\ last = NoCall
    /\ prev = Summary(NoCall, cfgPrefix)
    /\ nops = 0
    /\ clients = <<>>
    /\ envBackend = transport
    /\ configBackend = ""
    /\ newHubBackend = "fn"
    /\ newS3Backend = "fn"
    /\ ConfigIdle
    /\ factory = "checked"
    /\ got = [op |-> "NewBackend", type |-> transport, fn |-> "fn",
              backend |-> transport, err |-> "nil"]

S3PushAny ==
    \E remotePath \in ConfineRemotes, force \in BOOLEAN :
        /\ CanCall("s3")
        /\ \E w0 \in {World(store, fs)} :
           \E r \in {S3Push(w0, cfgPrefix, pF, remotePath, force, faultPlan)} :
               Returned(Call("Push", pF, remotePath, force, r, FALSE, w0), r)

S3PullAny ==
    \E remotePath \in ConfineRemotes, localPath \in PullLocals :
        /\ CanCall("s3")
        /\ \E w0 \in {World(store, fs)} :
           \E r \in {S3Pull(w0, cfgPrefix, remotePath, localPath, emptyPages, faultPlan)} :
               Returned(Call("Pull", localPath, remotePath, FALSE, r, FALSE, w0), r)

S3YankAny ==
    \E remotePath \in ConfineRemotes :
        /\ CanCall("s3")
        /\ \E w0 \in {World(store, fs)} :
           \E r \in {S3Yank(w0, cfgPrefix, remotePath, emptyPages, faultPlan)} :
               Returned(Call("Yank", <<>>, remotePath, FALSE, r, FALSE, w0), r)

S3ExistsAny ==
    \E remotePath \in ConfineRemotes :
        /\ CanCall("s3")
        /\ \E w0 \in {World(store, fs)} :
           \E r \in {S3Exists(w0, cfgPrefix, remotePath, faultPlan)} :
               Returned(Call("Exists", <<>>, remotePath, FALSE, r, r.val, w0), r)

NextConfine ==
    \/ S3PushAny
    \/ S3PullAny
    \/ S3YankAny
    \/ S3ExistsAny

SpecConfine == InitConfine /\ [][NextConfine]_vars

(***************************************************************************)
(* Two clients pushing to one key: each runs an unforced push of a file,   *)
(* and the store serves their requests in any order.                       *)
(***************************************************************************)

Clients == {1, 2}

\* The files the clients push, of different content.
ClientFiles == {pF, pDA}

\* The buckets the clients start from: the key "r" holds no object.
RaceKeySets == {{}, {pRX}, {pRA, pRX}}

\* A client about to run Push(local, "r", Force=false).
Pushing(local) == [pc |-> "check", local |-> local, remote |-> pR, res |-> "none"]

InitRace ==
    /\ transport \in {"s3", "hub"}
    /\ cfgPrefix \in (IF transport = "s3" THEN Prefixes ELSE {<<>>})
    /\ store \in {StoreOf(cfgPrefix, B) : B \in RaceKeySets}
    /\ fs = BaseTree
    /\ clients \in {[c \in Clients |-> Pushing(f[c])] : f \in [Clients -> ClientFiles]}
    /\ emptyPages = 0
    /\ faultPlan = NoFault
    /\ last = NoCall
    /\ prev = Summary(NoCall, <<>>)
    /\ nops = 0
    /\ envBackend = transport
    /\ configBackend = ""
    /\ newHubBackend = "fn"
    /\ newS3Backend = "fn"
    /\ ConfigIdle
    /\ factory = "checked"
    /\ got = [op |-> "NewBackend", type |-> transport, fn |-> "fn",
              backend |-> transport, err |-> "nil"]

\* What a step of a client leaves: its own record changed, the store it wrote.
Stepped(c, pc, res, s) ==
    /\ clients' = [clients EXCEPT ![c] = [@ EXCEPT !.pc = pc, !.res = res]]
    /\ store' = s
    /\ UNCHANGED <<transport, cfgPrefix, emptyPages, faultPlan, fs, last, prev, nops,
                   factoryVars, configVars>>

\* S3Backend.pushFile up to the return of s.Exists.
S3CheckStep(c) ==
    /\ transport = "s3"
    /\ clients[c].pc = "check"
    /\ \E ex \in {S3Exists(World(store, fs), cfgPrefix, clients[c].remote, NoFault)} :
           IF ex.res # "ok" THEN Stepped(c, "done", ex.res, store)
           ELSE IF ex.val THEN Stepped(c, "done", "ErrAlreadyExists", store)
           ELSE Stepped(c, "put", "none", store)

\* S3Backend.pushFile from os.Open to the return of PutObject.
S3WriteStep(c) ==
    /\ transport = "s3"
    /\ clients[c].pc = "put"
    /\ \E r \in {PutObject(World(store, fs), prefixedKey(cfgPrefix, clients[c].remote),
                            fs[Clean(clients[c].local)].data, NoFault)} :
           Stepped(c, "done", r.res, r.w.store)

\* executePush following the read-check descriptor of the client's file.
HubCheckStep(c) ==
    /\ transport = "hub"
    /\ clients[c].pc = "check"
    /\ \E r \in {Follow(World(store, fs), [method |-> "HEAD", key |-> clients[c].remote],
                         Artifact(clients[c].remote, clients[c].local, <<>>), NoFault)} :
           IF r.res # "ok" THEN Stepped(c, "done", r.res, store)
           ELSE Stepped(c, "put", "none", store)

\* executePush following the write descriptor of the client's file.
HubWriteStep(c) ==
    /\ transport = "hub"
    /\ clients[c].pc = "put"
    /\ \E r \in {Follow(World(store, fs), [method |-> "PUT", key |-> clients[c].remote],
                         Artifact(clients[c].remote, clients[c].local, <<>>), NoFault)} :
           Stepped(c, "done", r.res, r.w.store)

NextRace ==
    \/ \E c \in Clients : S3CheckStep(c)
    \/ \E c \in Clients : S3WriteStep(c)
    \/ \E c \in Clients : HubCheckStep(c)
    \/ \E c \in Clients : HubWriteStep(c)

SpecRace == InitRace /\ [][NextRace]_vars

(***************************************************************************)
(* The state machine of the factory: the process starts with no            *)
(* constructor registered; the packages' init functions register them; the *)
(* command asks for the backend.                                           *)
(***************************************************************************)

InitFactory ==
    /\ envBackend \in BackendValues
    /\ configBackend \in BackendValues
    /\ newHubBackend = "nil"
    /\ newS3Backend = "nil"
    /\ ConfigIdle
    /\ factory \in {"checked", "lazy"}
    /\ got = NoBuild
    /\ transport = "none"
    /\ cfgPrefix = <<>>
    /\ emptyPages = 0
    /\ faultPlan = NoFault
    /\ store = <<>>
    /\ fs = <<>>
    /\ last = NoCall
    /\ prev = Summary(NoCall, <<>>)
    /\ nops = 0
    /\ clients = <<>>

\* Nothing is called after a crash.
Running == got.err # "panic"

\* RegisterHubBackend, called by the init function of package hubbackend.
RegisterHubBackendCall ==
    /\ Running
    /\ newHubBackend' = "fn"
    /\ UNCHANGED <<backendVars, envBackend, configBackend, newS3Backend, factory, got,
                   configVars>>

\* RegisterS3Backend, called by the init function of package s3backend.
RegisterS3BackendCall ==
    /\ Running
    /\ newS3Backend' = "fn"
    /\ UNCHANGED <<backendVars, envBackend, configBackend, newHubBackend, factory, got,
                   configVars>>

GetBackendTypeCall ==
    /\ Running
    /\ got' = [op |-> "GetBackendType",
                 type |-> GetBackendType(envBackend, configBackend),
                 fn |-> "nil", backend |-> "nil", err |-> "nil"]
    /\ UNCHANGED <<backendVars, envBackend, configBackend, newHubBackend, newS3Backend,
                   factory, configVars>>

\* NewBackend; the constructor it calls finds its parameters set or not.
NewBackendCall ==
    \E configured \in BOOLEAN :
        /\ Running
        /\ \E backendType \in {GetBackendType(envBackend, configBackend)} :
           \E r \in {IF factory = "checked"
                      THEN NewBackend(backendType, newHubBackend, newS3Backend, configured)
                      ELSE NewBackendLazy(backendType, newHubBackend, newS3Backend,
                                          configured)} :
               got' = [op |-> "NewBackend", type |-> backendType,
                       fn |-> ConstructorOf(backendType, newHubBackend, newS3Backend),
                       backend |-> r.backend, err |-> r.err]
        /\ UNCHANGED <<backendVars, envBackend, configBackend, newHubBackend,
                       newS3Backend, factory, configVars>>

NextFactory ==
    \/ RegisterHubBackendCall
    \/ RegisterS3BackendCall
    \/ GetBackendTypeCall
    \/ NewBackendCall

SpecFactory == InitFactory /\ [][NextFactory]_vars

(***************************************************************************)
(* Loading the direct transport's configuration                            *)
(***************************************************************************)

InitConfig ==
    /\ s3Env \in Environments
    /\ s3File \in Files
    /\ loaded = NoLoad
    /\ transport = "none"
    /\ cfgPrefix = <<>>
    /\ emptyPages = 0
    /\ faultPlan = NoFault
    /\ store = <<>>
    /\ fs = <<>>
    /\ last = NoCall
    /\ prev = Summary(NoCall, <<>>)
    /\ nops = 0
    /\ clients = <<>>
    /\ envBackend = "s3"
    /\ configBackend = ""
    /\ newHubBackend = "fn"
    /\ newS3Backend = "fn"
    /\ factory = "checked"
    /\ got = NoBuild

\* LoadConfig
LoadConfigCall ==
    /\ loaded.op = "none"
    /\ \E r \in {LoadConfig(s3Env, s3File)} :
           loaded' = [op |-> "LoadConfig", ok |-> r.ok, cfg |-> r.cfg]
    /\ UNCHANGED <<backendVars, factoryVars, s3Env, s3File>>

NextConfig == LoadConfigCall

SpecConfig == InitConfig /\ [][NextConfig]_vars

(***************************************************************************)
(* Properties                                                              *)
(***************************************************************************)

\* The key a call's remote path names in the bucket.
KeyOf(c) == prefixedKey(cfgPrefix, c.remote)

\* The broker answered the call's push request with a miscounted list.
Malformed(c) ==
    /\ faultPlan.kind \in {"SHORT", "LONG"}
    /\ c.op = "Push"
    /\ Count(c.reqs, "BROKER") > 0

\* A request of the call was the one the fault plan fails, or was answered
\* with a miscounted list.
Failed(c) ==
    \/ Malformed(c)
    \/ \E i \in 1..Len(c.reqs) :
           /\ c.reqs[i].kind = faultPlan.kind
           /\ Count(SubSeq(c.reqs, 1, i), faultPlan.kind) = faultPlan.at

\* The keys the call sent a request of the kind for.
KeysOf(c, kind) == {c.reqs[i].key : i \in {j \in 1..Len(c.reqs) : c.reqs[j].kind = kind}}

\* The path was absent before the call.
Fresh(c, p) == ~IsPath(c.fs0, p)

\* The last two calls: an unforced push of a regular file to a key that held no
\* object, which succeeded, then a call on the same remote path.
AfterFilePush ==
    /\ prev.op = "Push" /\ ~prev.force /\ prev.file /\ ~prev.held /\ prev.res = "ok"
    /\ last.remote = prev.remote
    /\ ~Failed(last)

\* C1: after an unforced push of a file to a key that holds no object succeeds,
\* Exists of the key returns (true, no error), and Pull of the key to a fresh
\* destination succeeds and leaves there a file of exactly the pushed content.
C1_SingleFileRoundTrip ==
    AfterFilePush =>
        /\ last.op = "Exists" => (last.res = "ok" /\ last.val)
        /\ (last.op = "Pull" /\ Fresh(last, last.local)) =>
               /\ last.res = "ok"
               /\ IsFile(fs, last.local)
               /\ fs[Clean(last.local)].data = prev.data

\* C2: an unforced push of a single file whose key already holds an object
\* returns ErrAlreadyExists, issues no write for the key, and leaves the key's
\* stored content as it was.
C2_UnforcedPushConflict ==
    (/\ last.op = "Push" /\ ~last.force
     /\ IsFile(last.fs0, last.local)
     /\ KeyOf(last) \in DOMAIN last.store0
     /\ ~Failed(last)) =>
        /\ last.res = "ErrAlreadyExists"
        /\ KeyOf(last) \notin KeysOf(last, "PUT")
        /\ KeyOf(last) \in DOMAIN store
        /\ store[KeyOf(last)] = last.store0[KeyOf(last)]

\* An unforced push of a file met an object at its key and was refused.
C2_Witness ==
    /\ last.op = "Push" /\ ~last.force
    /\ IsFile(last.fs0, last.local)
    /\ KeyOf(last) \in DOMAIN last.store0
    /\ last.res = "ErrAlreadyExists"
    /\ last.store0[KeyOf(last)] # last.fs0[Clean(last.local)].data

\* C3: a forced push of a file to a key that holds content succeeds with no
\* existence check and the key then holds exactly the pushed content; a Pull of
\* the key that follows and delivers the object leaves exactly that content at
\* the destination (the old content replaced, not appended to).
C3_ForcedPushOverwrites ==
    /\ (/\ last.op = "Push" /\ last.force
         /\ IsFile(last.fs0, last.local)
         /\ KeyOf(last) \in DOMAIN last.store0
         /\ ~Failed(last)) =>
            /\ last.res = "ok"
            /\ KeysOf(last, "HEAD") = {}
            /\ KeyOf(last) \in DOMAIN store
            /\ store[KeyOf(last)] = last.fs0[Clean(last.local)].data
    /\ (/\ prev.op = "Push" /\ prev.force /\ prev.file /\ prev.held /\ prev.res = "ok"
         /\ last.op = "Pull" /\ last.remote = prev.remote
         /\ ~Failed(last)
         /\ \/ last.res = "ok"
            \/ Fresh(last, last.local) /\ KeyOf(last) \in KeysOf(last, "GET")) =>
            /\ IsFile(fs, last.local)
            /\ fs[Clean(last.local)].data = prev.data

\* A forced push replaced a key's content by a different one, and the Pull that
\* followed succeeded.
C3_Witness ==
    /\ prev.op = "Push" /\ prev.force /\ prev.file /\ prev.held /\ prev.res = "ok"
    /\ last.op = "Pull" /\ last.remote = prev.remote /\ last.res = "ok"
    /\ last.store0[KeyOf(last)] = prev.data
    /\ prev.data # BaseObjects[last.remote]

\* The last two calls: a push of a directory to a remote path with no object at
\* or under it, which succeeded, then a Pull of that remote path to a fresh
\* destination.
AfterDirectoryPush ==
    /\ prev.op = "Push" /\ prev.tree # <<>> /\ prev.free /\ prev.res = "ok"
    /\ last.op = "Pull" /\ last.remote = prev.remote
    /\ Fresh(last, last.local)
    /\ ~Failed(last)

\* C4: after Push(D, R) of a directory with files at several depths to a remote
\* path with nothing at or under it, Pull(R, D') into an empty D' yields under
\* D' exactly the relative paths under D, each with the same content.
C4_DirectoryRoundTrip ==
    AfterDirectoryPush =>
        /\ last.res = "ok"
        /\ IsDir(fs, last.local)
        /\ RelFiles(fs, last.local) = prev.tree

\* The key a regular file beneath the pushed directory is to be uploaded under.
KeyFor(c, q) == prefixedKey(cfgPrefix, Join(c.remote, ToSlash(Rel(c.local, q))))

\* C5: a push of a directory, named by a cleaned string or not, uploads every
\* regular file beneath it under remotePath joined with the file's
\* slash-normalised path relative to localPath, and uploads nothing else, in
\* both transports.
C5_DirectoryPushKeys ==
    (/\ last.op = "Push" /\ last.res = "ok"
     /\ IsDir(last.fs0, last.local)) =>
        KeysOf(last, "PUT") =
            {KeyFor(last, q) : q \in {x \in Beneath(last.fs0, last.local) : ~last.fs0[x].dir}}

\* The objects at or under the call's remote path before the call.
Matching(c) == {k \in DOMAIN c.store0 : AtOrUnder(k, KeyOf(c))}

\* C6: Pull downloads every object whose key is remotePath or lies under it in
\* the slash-delimited namespace, and no other; each is written to localPath
\* joined with the part of its key past remotePath.
C6_PullScope ==
    last.op = "Pull" =>
        /\ KeysOf(last, "GET") \subseteq Matching(last)
        /\ last.res = "ok" =>
               /\ KeysOf(last, "GET") = Matching(last)
               /\ \A k \in Matching(last) :
                      LET dest == Join(last.local, TrimPrefix(k, KeyOf(last)))
                      IN  IsFile(fs, dest) /\ fs[dest].data = last.store0[k]

\* No object matches the call's remote path: the listing (every key that starts
\* with the key) or the broker's URL list (every key at or under it) is empty.
NothingMatches(c) ==
    IF transport = "s3" THEN ListObjectsV2(c.store0, KeyOf(c)) = <<>>
    ELSE BrokerURLs(c.store0, c.remote, "PULL") = <<>>

\* C7: in both transports, a Pull that no object matches returns ErrNotFound and
\* creates or modifies no local file.
C7_PullOfNothing ==
    (last.op = "Pull" /\ NothingMatches(last) /\ ~Failed(last)) =>
        (last.res = "ErrNotFound" /\ fs = last.fs0)

\* A Pull found nothing in a bucket that holds objects.
C7_Witness ==
    /\ last.op = "Pull" /\ NothingMatches(last)
    /\ last.res = "ErrNotFound"
    /\ last.store0 # <<>>

\* The destinations of the matched objects that were regular files before the call.
ExistingDestinations(c) ==
    {d \in {Join(c.local, TrimPrefix(k, KeyOf(c))) : k \in Matching(c)} : IsFile(c.fs0, d)}

\* C8: in both transports, a Pull without force, when the destination file of a
\* matched object exists locally, fails with a conflict and leaves that file's
\* content unchanged.
C8_PullDoesNotOverwrite ==
    (/\ last.op = "Pull" /\ ~last.force
     /\ ExistingDestinations(last) # {}
     /\ ~Failed(last)) =>
        /\ last.res = "ErrExistsLocally"
        /\ \A d \in ExistingDestinations(last) : IsFile(fs, d) /\ fs[d] = last.fs0[d]

\* C9: after Yank(k) returns success from a store in which k held an object, the
\* key holds none and Exists(k) returns (false, no error).
C9_YankRemovesTarget ==
    /\ (last.op = "Yank" /\ last.res = "ok" /\ KeyOf(last) \in DOMAIN last.store0) =>
            KeyOf(last) \notin DOMAIN store
    /\ (/\ prev.op = "Yank" /\ prev.res = "ok" /\ prev.held
         /\ last.op = "Exists" /\ last.remote = prev.remote
         /\ ~Failed(last)) =>
            (last.res = "ok" /\ ~last.val)

\* Exists was asked after a Yank that removed the key's object.
C9_Witness ==
    /\ prev.op = "Yank" /\ prev.res = "ok" /\ prev.held
    /\ last.op = "Exists" /\ last.remote = prev.remote
    /\ last.res = "ok" /\ ~last.val
    /\ Count(last.reqs, "HEAD") + Count(last.reqs, "BROKER") > 0

\* C10: in both transports, a Yank that no object matches returns success and
\* leaves the store unchanged; a second Yank of a path gives the store and the
\* result of the first; Yank returns an error only when a list, broker or delete
\* request fails.
C10_YankIdempotent ==
    last.op = "Yank" =>
        /\ (NothingMatches(last) /\ ~Failed(last)) =>
               (last.res = "ok" /\ store = last.store0)
        /\ (/\ prev.op = "Yank" /\ prev.remote = last.remote /\ prev.res = "ok"
             /\ ~Failed(last)) =>
               (last.res = prev.res /\ store = last.store0)
        /\ last.res # "ok" =>
               (Failed(last) /\ faultPlan.kind \in {"LIST", "BROKER", "DELETE"})

\* A Yank was repeated after it had deleted the objects it matched.
C10_Witness ==
    /\ last.op = "Yank" /\ last.res = "ok" /\ NothingMatches(last)
    /\ prev.op = "Yank" /\ prev.remote = last.remote /\ prev.res = "ok" /\ prev.held

\* C11: in both transports Exists(remotePath) returns true exactly when the
\* store holds an object whose key is remotePath or lies under it, and
\* (false, no error) when it holds none.
C11_ExistsAtOrUnder ==
    (last.op = "Exists" /\ ~Failed(last)) =>
        (last.res = "ok" /\ (last.val <=> Matching(last) # {}))

\* C12: in the direct transport a head request that fails because the object
\* is absent yields (false, no error); one that fails for any other reason
\* yields an error, never (false, no error), whatever its message.
C12_ExistsErrorClassification ==
    (transport = "s3" /\ last.op = "Exists") =>
        /\ (~Failed(last) /\ KeyOf(last) \notin DOMAIN last.store0) =>
               (last.res = "ok" /\ ~last.val)
        /\ Failed(last) => last.res # "ok"

\* The requests of the call for objects (checks and writes), in order.
ObjectReqs(c) == SelectSeq(c.reqs, LAMBDA q : q.kind \in {"HEAD", "PUT"})

\* The writes of the call before its last object request.
WritesBefore(c) ==
    SelectSeq(SubSeq(ObjectReqs(c), 1, Len(ObjectReqs(c)) - 1), LAMBDA q : q.kind = "PUT")

\* The regular files of the pushed directory in walk order.
WalkFiles(c) == SelectSeq(WalkEntries(c.fs0, c.local), LAMBDA e : ~e.dir)

\* A push of a directory failed at one of its files, for a conflict or a
\* transport error.
FileOfPushFailed(c) ==
    /\ c.op = "Push" /\ IsDir(c.fs0, c.local)
    /\ c.res \in {"ErrAlreadyExists", "ErrTransport"}
    /\ ObjectReqs(c) # <<>>

\* C13: when the i-th file of a directory push fails, every file before it is
\* in the store with its content, the failing request is the last one issued
\* (none for a later file, and the failing file is not written), and Push
\* returns that file's error.
C13_NoRollbackAbortOnFirstFailure ==
    FileOfPushFailed(last) =>
        LET reqs    == ObjectReqs(last)
            failing == reqs[Len(reqs)]
            done    == WritesBefore(last)
            files   == WalkFiles(last)
        IN  /\ Len(done) < Len(files)
            /\ \A j \in 1..Len(done) :
                   /\ done[j].key \in DOMAIN store
                   /\ store[done[j].key] = last.fs0[Clean(files[j].path)].data
            /\ \A j \in 1..Len(done) : done[j].key # failing.key
            /\ \A j \in 1..Len(reqs) :
                   reqs[j].key \in {done[k].key : k \in 1..Len(done)} \cup {failing.key}
            /\ DOMAIN store = DOMAIN last.store0 \cup {done[k].key : k \in 1..Len(done)}
            /\ failing.key \in DOMAIN store => store[failing.key] = last.store0[failing.key]
            /\ last.res = "ErrTransport" =>
                   (/\ failing.kind = faultPlan.kind
                    /\ Count(reqs, failing.kind) = faultPlan.at)
            /\ last.res = "ErrAlreadyExists" =>
                   (failing.kind = "HEAD" /\ failing.key \in DOMAIN last.store0)

\* The second file of a directory push met a conflict after the first was
\* uploaded.
C13_Witness ==
    /\ FileOfPushFailed(last)
    /\ last.res = "ErrAlreadyExists"
    /\ Len(WritesBefore(last)) = 1
    /\ Len(WalkFiles(last)) = 2

\* The key held an object when the call issued its i-th request.
HeldAt(c, i, key) ==
    \/ key \in DOMAIN c.store0
    \/ \E j \in 1..(i - 1) : c.reqs[j].kind = "PUT" /\ c.reqs[j].key = key

\* The i-th request of the call is the one the fault plan fails.
FailedAt(c, i) ==
    /\ c.reqs[i].kind = faultPlan.kind
    /\ Count(SubSeq(c.reqs, 1, i), faultPlan.kind) = faultPlan.at

\* C14: in an unforced push of the signed-URL transport, a file's write request
\* is issued only right after that file's read-check request, which answered
\* not found; when a read-check answers found, no write request for that file
\* is issued and Push fails with a conflict.
C14_CheckBeforeWrite ==
    (transport = "hub" /\ last.op = "Push" /\ ~last.force) =>
        \A i \in 1..Len(last.reqs) :
            /\ last.reqs[i].kind = "PUT" =>
                   /\ i > 1
                   /\ last.reqs[i - 1].kind = "HEAD"
                   /\ last.reqs[i - 1].key = last.reqs[i].key
                   /\ ~FailedAt(last, i - 1)
                   /\ ~HeldAt(last, i - 1, last.reqs[i].key)
            /\ (/\ last.reqs[i].kind = "HEAD"
                 /\ ~FailedAt(last, i)
                 /\ HeldAt(last, i, last.reqs[i].key)) =>
                   /\ last.res = "ErrAlreadyExists"
                   /\ \A j \in 1..Len(last.reqs) :
                          ~(last.reqs[j].kind = "PUT" /\ last.reqs[j].key = last.reqs[i].key /\ j > i)
                   /\ i = Len(last.reqs)

\* An unforced push over signed URLs wrote one file after its check and was
\* refused at the next file's check.
C14_Witness ==
    /\ transport = "hub" /\ last.op = "Push" /\ ~last.force
    /\ last.res = "ErrAlreadyExists"
    /\ KeysOf(last, "PUT") # {}
    /\ Cardinality(KeysOf(last, "HEAD")) = 2

\* C15: when the broker answers a push of N files over signed URLs with a list
\* whose length is not N (forced) or 2N (unforced), Push returns an error, no
\* request is issued to any returned URL and the store is unchanged.
C15_MalformedBrokerResponse ==
    (transport = "hub" /\ Malformed(last)) =>
        /\ last.res = "ErrMalformed"
        /\ \A i \in 1..Len(last.reqs) : last.reqs[i].kind = "BROKER"
        /\ store = last.store0
        /\ fs = last.fs0

\* The broker answered a directory push with one descriptor too many.
C15_Witness ==
    /\ transport = "hub" /\ Malformed(last) /\ faultPlan.kind = "LONG"
    /\ IsDir(last.fs0, last.local)
    /\ last.res = "ErrMalformed"

\* The number of regular files a push of the call's local path sends.
FilesOf(c) == IF IsFile(c.fs0, c.local) THEN 1 ELSE Len(WalkFiles(c))

\* The requests the call sent to signed URLs.
HTTPReqs(c) == SelectSeq(c.reqs, LAMBDA q : q.kind # "BROKER")

\* C16: a forced push over signed URLs sends exactly one broker request, of
\* kind push-force and carrying one key per file, then exactly one HTTP request
\* per file, a write to that file's key, and no read-check request.
C16_ForcedPushOneDescriptor ==
    (transport = "hub" /\ last.op = "Push" /\ last.force) =>
        /\ Count(last.reqs, "BROKER") = 1
        /\ last.reqs[1].kind = "BROKER"
        /\ last.reqs[1].key.type = "PUSHFORCE"
        /\ Len(last.reqs[1].key.paths) = FilesOf(last)
        /\ Count(last.reqs, "HEAD") = 0
        /\ Len(HTTPReqs(last)) <= FilesOf(last)
        /\ \A i \in 1..Len(HTTPReqs(last)) :
               /\ HTTPReqs(last)[i].kind = "PUT"
               /\ HTTPReqs(last)[i].key = last.reqs[1].key.paths[i]
        /\ ~Failed(last) => (last.res = "ok" /\ Len(HTTPReqs(last)) = FilesOf(last))

\* A forced push of a directory of two files over signed URLs succeeded.
C16_Witness ==
    /\ transport = "hub" /\ last.op = "Push" /\ last.force
    /\ last.res = "ok" /\ FilesOf(last) = 2
    /\ Len(HTTPReqs(last)) = 2

\* The keys the store lists for the call's key.
Listed(c) == ListObjectsV2(c.store0, KeyOf(c))

\* C17: the direct transport's Pull returns ErrNotFound only after it fetched
\* every page of the listing and every page was empty; when a page holds an
\* object, even one that follows empty pages, Pull does not return ErrNotFound.
C17_ListingDrained ==
    (transport = "s3" /\ last.op = "Pull") =>
        /\ last.res = "ErrNotFound" =>
               /\ Listed(last) = <<>>
               /\ Count(last.reqs, "LIST") = Len(Paginate(Listed(last), emptyPages))
               /\ \A i \in 1..Len(last.reqs) : last.reqs[i].kind = "LIST"
        /\ Listed(last) # <<>> => last.res # "ErrNotFound"

\* Pull found an object on a page that followed an empty one.
C17_Witness ==
    /\ transport = "s3" /\ last.op = "Pull" /\ emptyPages > 0
    /\ last.res = "ok" /\ Count(last.reqs, "GET") > 0
    /\ Count(last.reqs, "LIST") = Len(Paginate(Listed(last), emptyPages))

\* The bucket as a caller of the transport configured with the prefix names
\* its keys: each key with the prefix and the slash after it stripped.
Unprefixed(s, pfx) ==
    IF pfx = <<>> THEN s
    ELSE [k \in {TrimPrefix(q, pfx \o <<"/">>) : q \in DOMAIN s} |-> s[pfx \o <<"/">> \o k]]

\* What the call returns and leaves, made with no prefix configured on the
\* bucket as its caller names it.
PlainRun(c) ==
    With(World(Unprefixed(c.store0, cfgPrefix), c.fs0), LAMBDA w :
      CASE c.op = "Push" -> S3Push(w, <<>>, c.local, c.remote, c.force, faultPlan)
        [] c.op = "Pull" -> S3Pull(w, <<>>, c.remote, c.local, emptyPages, faultPlan)
        [] c.op = "Yank" -> S3Yank(w, <<>>, c.remote, emptyPages, faultPlan)
        [] c.op = "Exists" ->
               With(S3Exists(w, <<>>, c.remote, faultPlan), LAMBDA r :
                 [w |-> r.w, res |-> IF r.val THEN "true" ELSE r.res])
        [] OTHER -> Ret(w, "ok"))

\* C18: a call of the direct transport configured with a prefix P returns what
\* the same call returns with no prefix, writes the same local files, and
\* leaves in the store, under P joined with each key, the objects the call
\* with no prefix leaves under the caller's keys.
C18_PrefixTransparent ==
    (transport = "s3" /\ cfgPrefix # <<>> /\ last.op # "none") =>
        With(PlainRun(last), LAMBDA plain :
          /\ plain.res = (IF last.op = "Exists" /\ last.val THEN "true" ELSE last.res)
          /\ fs = plain.w.fs
          /\ DOMAIN store = {Join(cfgPrefix, k) : k \in DOMAIN plain.w.store}
          /\ \A k \in DOMAIN plain.w.store : store[Join(cfgPrefix, k)] = plain.w.store[k]
          /\ Unprefixed(store, cfgPrefix) = plain.w.store)

Downloaded(c) == SelectSeq(c.reqs, LAMBDA q : q.kind = "GET")

RECURSIVE BytesOf(_, _)
BytesOf(s, gets) ==
    IF gets = <<>> THEN 0 ELSE Len(s[Head(gets).key]) + BytesOf(s, Tail(gets))

\* C20: after a successful pull, the file count and total bytes reported are
\* the number and the total size of the objects that call downloaded,
\* whatever the local destination held before.
C20_PullStatistics ==
    (last.op = "Pull" /\ last.res = "ok") =>
        last.stats = Stats(Len(Downloaded(last)), BytesOf(last.store0, Downloaded(last)))

\* The store or the broker refused a request of the call for lack of permission.
Refused(c) == Failed(c) /\ ~Malformed(c) /\ faultPlan.text = TextDenied

\* C21: a failure of Push, Pull, Yank or Exists tells its kind: a request
\* refused for lack of permission gives ErrPermissionDenied, a pull of a
\* missing artifact ErrNotFound, an unforced push onto a held key
\* ErrAlreadyExists.
C21_TypedFailures ==
    (last.op \in {"Push", "Pull", "Yank", "Exists"}) =>
        /\ Refused(last) => last.res = "ErrPermissionDenied"
        /\ (last.op = "Pull" /\ NothingMatches(last) /\ ~Failed(last)) =>
               last.res = "ErrNotFound"
        /\ (/\ last.op = "Push" /\ ~last.force /\ IsFile(last.fs0, last.local)
            /\ KeyOf(last) \in DOMAIN last.store0 /\ ~Failed(last)) =>
               last.res = "ErrAlreadyExists"

\* C22: when NewBackend selects a kind whose constructor was never registered,
\* it returns an error and no backend, and does not crash on the unset
\* constructor.
C22_UnregisteredConstructor ==
    (got.op = "NewBackend" /\ got.fn = "nil") =>
        /\ got.backend = "nil"
        /\ got.err \notin {"nil", "panic"}

\* The values that name a backend kind.
Kinds == {BackendTypeS3, BackendTypeHub}

Uncancelled(c) ==
    With(World(c.store0, c.fs0), LAMBDA w :
      CASE transport = "s3" /\ c.op = "Push" ->
               S3Push(w, cfgPrefix, c.local, c.remote, c.force, NoFault)
        [] transport = "s3" /\ c.op = "Pull" ->
               S3Pull(w, cfgPrefix, c.remote, c.local, emptyPages, NoFault)
        [] transport = "s3" /\ c.op = "Yank" ->
               S3Yank(w, cfgPrefix, c.remote, emptyPages, NoFault)
        [] transport = "hub" /\ c.op = "Push" ->
               HubPush(w, c.local, c.remote, c.force, NoFault)
        [] transport = "hub" /\ c.op = "Pull" ->
               HubPull(w, c.remote, c.local, c.force, NoFault)
        [] transport = "hub" /\ c.op = "Yank" -> HubYank(w, c.remote, NoFault)
        [] OTHER -> Ret(w, "ok"))

\* The cancellation signal fired during the call: before a request the call
\* had yet to send.
Fired(c) ==
    /\ faultPlan.kind = "CANCEL"
    /\ c.op \in {"Push", "Pull", "Yank"}
    /\ Len(Uncancelled(c).w.reqs) >= faultPlan.at

\* C24: once the cancellation signal of a Push, Pull or Yank has fired, the
\* call starts no further object operation and returns an error.
C24_CancellationHonoured ==
    Fired(last) =>
        /\ Len(last.reqs) < faultPlan.at
        /\ last.res # "ok"

\* The object whose download the call made last, and where Pull writes it.
LastGet(c) == Downloaded(c)[Len(Downloaded(c))].key
LastDest(c) == Join(c.local, TrimPrefix(LastGet(c), KeyOf(c)))

\* C25: when a download inside Pull breaks after its destination file has been
\* created, the destination does not hold the truncated content when Pull
\* returns.
C25_NoPartialDownload ==
    (transport = "s3" /\ last.op = "Pull" /\ last.res = "ErrCopy") =>
        ~(/\ IsFile(fs, LastDest(last))
          /\ fs[Clean(LastDest(last))].data = Truncated(last.store0[LastGet(last)]))

\* C26: in both transports Close, called after any call and any number of
\* times, returns no error, sends no request and changes neither the store
\* nor the local files; the result of the call before it stays that call's.
C26_CloseHarmless ==
    last.op = "Close" =>
        /\ last.res = "ok"
        /\ last.reqs = <<>>
        /\ store = last.store0
        /\ fs = last.fs0
        /\ prev.op = "Close" => prev.res = "ok"

\* Close was called after a Pull that failed.
C26_Witness ==
    /\ last.op = "Close" /\ last.res = "ok"
    /\ prev.op = "Pull" /\ prev.res = "ErrNotFound"

\* C27: when two clients push unforced to one key that held no object, then
\* however their checks and writes interleave, at most one push succeeds and
\* the other returns ErrAlreadyExists.
C27_ConflictUnderInterleaving ==
    (clients # <<>> /\ \A c \in Clients : clients[c].pc = "done") =>
        \E c \in Clients :
            /\ clients[c].res = "ok"
            /\ \A o \in Clients \ {c} : clients[o].res = "ErrAlreadyExists"

\* C28: Yank leaves unchanged every object whose key is neither the remote
\* path nor under it in the slash-delimited namespace, a key that only starts
\* with the path's string included.
C28_YankFrame ==
    last.op = "Yank" =>
        \A k \in DOMAIN last.store0 :
            ~AtOrUnder(k, KeyOf(last)) =>
                (k \in DOMAIN store /\ store[k] = last.store0[k])

\* The descriptors attached to the artifacts, in the artifacts' order.
RECURSIVE AttachedURLs(_)
AttachedURLs(artifacts) ==
    IF artifacts = <<>> THEN <<>>
    ELSE Head(artifacts).URLs \o AttachedURLs(Tail(artifacts))

\* C29: in a push over signed URLs whose URL count matches, the i-th file in
\* enumeration order, counting from 1, receives descriptors 2i-1 and 2i of the
\* broker's list in that order when unforced and descriptor i when forced;
\* the descriptors attached, file after file, are the broker's list: none is
\* dropped and none is given to two files.
C29_DescriptorAssignment ==
    (transport = "hub" /\ last.op = "Push" /\ last.artifacts # <<>>) =>
        /\ \A i \in 1..Len(last.artifacts) :
               last.artifacts[i].URLs =
                   (IF last.force THEN <<last.urls[i]>>
                    ELSE <<last.urls[2 * i - 1], last.urls[2 * i]>>)
        /\ AttachedURLs(last.artifacts) = last.urls
        /\ Len(last.artifacts) = FilesOf(last)

\* An unforced push of two files attached the four descriptors of the broker.
C29_Witness ==
    /\ transport = "hub" /\ last.op = "Push" /\ ~last.force
    /\ Len(last.artifacts) = 2 /\ Len(last.urls) = 4
    /\ last.artifacts[2].URLs = <<last.urls[3], last.urls[4]>>

\* The regular files a call created or changed.
Written(c) ==
    {q \in DOMAIN fs : ~fs[q].dir /\ (q \notin DOMAIN c.fs0 \/ fs[q] # c.fs0[q])}

\* C30: every local file a Pull creates or overwrites is the destination
\* itself or lies beneath it, whatever keys the store holds, and Pull does
\* not crash.
C30_PullStaysInside ==
    last.op = "Pull" =>
        /\ last.res # "panic"
        /\ \A q \in Written(last) :
               \/ q = Clean(last.local)
               \/ HasPrefix(q, Clean(last.local) \o <<"/">>)

\* C31: under a non-empty key prefix, every key the direct transport passes
\* to a store call (head, put, get, delete, list prefix) during a Push, Pull,
\* Yank or Exists begins with the prefix, whatever remote path the caller gave.
C31_PrefixConfinement ==
    (transport = "s3" /\ cfgPrefix # <<>>
         /\ last.op \in {"Push", "Pull", "Yank", "Exists"}) =>
        \A i \in 1..Len(last.reqs) : HasPrefix(last.reqs[i].key, cfgPrefix)

\* The backend name the caller selected: the environment variable when it is
\* set, else the configuration key.
Selected == IF envBackend # "" THEN envBackend ELSE configBackend

\* C32: when the selected backend name is set and is neither "hub" nor "s3",
\* creating the backend returns the unknown-backend error and no backend,
\* instead of silently using another backend.
C32_UnknownNameIsError ==
    (got.op = "NewBackend" /\ Selected \notin {"", "hub", "s3"}) =>
        (got.backend = "nil" /\ got.err = "ErrUnknownType")

\* The four settings that are strings.
Settings == {"Bucket", "Region", "Endpoint", "Prefix"}

\* C33: in the configuration LoadConfig returns, each of bucket, region,
\* endpoint, force-path-style and prefix has the value of its environment
\* variable when the variable is set, whatever the file says, and the file's
\* value only when the variable is unset; LoadConfig returns an error and no
\* configuration when the bucket is set in neither place.
C33_EnvironmentOverFile ==
    loaded.op = "LoadConfig" =>
        /\ ~loaded.ok <=> (s3Env.Bucket = "" /\ s3File.Bucket = "")
        /\ ~loaded.ok => loaded.cfg = ZeroConfig
        /\ loaded.ok =>
               /\ \A k \in Settings :
                      loaded.cfg[k] = (IF s3Env[k] # "" THEN s3Env[k] ELSE s3File[k])
               /\ loaded.cfg.ForcePathStyle =
                      (IF s3Env.ForcePathStyle # "" THEN s3Env.ForcePathStyle = "true"
                       ELSE s3File.ForcePathStyle)

====
